---- MODULE Spec2Model ----
(***************************************************************************)
(* Model of the chunker of repomix (src/src/repomix/utils/parser.py):      *)
(* format_file_section, split_long_line and chunk_content, over the        *)
(* tokenizer count_tokens (src/src/repomix/utils/spacy_utils.py).          *)
(*                                                                         *)
(* A Python str is a sequence of one-character strings.  A content map     *)
(* (a dict, which keeps insertion order) is a sequence of <<name, text>>   *)
(* pairs with distinct names.  chunk_content runs as a state machine with  *)
(* one action per loop iteration of the code.                              *)
(***************************************************************************)
EXTENDS Integers, Sequences, FiniteSets, TLC

\* ------------------------------------------------------------- bounds
\* longest content of a map that holds one file
MaxLen == 5
\* largest summed content length of a map that holds two files
MaxPairLen == 3
\* largest token_limit
MaxBudget == 10
\* the lines of the file of many lines
MaxParts == 1000
\* longest line of the files of one line
MaxLineLen == 8
\* longest contents of the two files of interleaved invocations
MaxFirstLen == 3
MaxSecondLen == 1
\* longest list of files given to concatenate_files
MaxFiles == 3
\* most files on the disk glob_files walks
MaxOnDisk == 3
\* longest list of files of that disk given to concatenate_files
MaxListed == 2
\* longest list given to parse_multi_urls
MaxUrls == 2
\* longest text given to truncate_text_by_tokens, and the largest max_tokens
MaxText == 6
MaxTokens == 3
\* longest list of directories given to analyze_directories
MaxDirs == 4
\* most rows of a small cache, and the rows of the large one
MaxRows == 3
ManyRows == 1050

\* ------------------------------------------------------------- strings
NL == "\n"
SP == " "

\* the characters file contents are drawn from
Alphabet == {"a", SP, NL}

\* the file names (keys of the content map)
Names == {<<"a", "b">>, <<"b">>}

\* code point of a character (Python compares str by code point)
Ord(c) ==
    CASE c = NL -> 10
      [] c = SP -> 32
      [] c = "0" -> 48
      [] c = "1" -> 49
      [] c = "2" -> 50
      [] c = "3" -> 51
      [] c = "4" -> 52
      [] c = "5" -> 53
      [] c = "6" -> 54
      [] c = "7" -> 55
      [] c = "8" -> 56
      [] c = "9" -> 57
      [] c = ":" -> 58
      [] c = "F" -> 70
      [] c = "_" -> 95
      [] c = "a" -> 97
      [] c = "b" -> 98
      [] c = "e" -> 101
      [] c = "i" -> 105
      [] c = "l" -> 108

\* str.isspace for the characters of the model
IsSpace(c) == c \in {SP, NL}

\* s[i:j] of Python (0-based, j exclusive), for 0 <= i and j <= len(s)
Slice(s, i, j) == IF j <= i THEN <<>> ELSE SubSeq(s, i + 1, j)

\* s[:n]
Take(s, n) == Slice(s, 0, IF n < Len(s) THEN n ELSE Len(s))

\* s[n:]
Drop(s, n) == IF n >= Len(s) THEN <<>> ELSE SubSeq(s, n + 1, Len(s))

\* str < str of Python: lexicographic by code point, a proper prefix first
RECURSIVE StrLess(_, _)
StrLess(s, t) ==
    IF t = <<>> THEN FALSE
    ELSE IF s = <<>> THEN TRUE
    ELSE IF s[1] # t[1] THEN Ord(s[1]) < Ord(t[1])
    ELSE StrLess(Tail(s), Tail(t))

\* sorted(keys): ascending by StrLess
RECURSIVE SortedSeq(_)
SortedSeq(S) ==
    IF S = {} THEN <<>>
    ELSE LET m == CHOOSE x \in S : \A y \in S \ {x} : StrLess(x, y)
         IN  <<m>> \o SortedSeq(S \ {m})

\* str.lstrip(): leading whitespace removed
RECURSIVE LStrip(_)
LStrip(s) == IF s # <<>> /\ IsSpace(s[1]) THEN LStrip(Tail(s)) ELSE s

\* str.rstrip(): trailing whitespace removed
RECURSIVE RStrip(_)
RStrip(s) ==
    IF s # <<>> /\ IsSpace(s[Len(s)]) THEN RStrip(SubSeq(s, 1, Len(s) - 1)) ELSE s

\* str.strip(): leading and trailing whitespace removed
Strip(s) == LStrip(RStrip(s))

\* the element of the non-empty set S of integers nearest to x
Nearest(S, x) ==
    LET dist(k) == IF k < x THEN x - k ELSE k - x
        best    == CHOOSE d \in {dist(k) : k \in S} : \A k \in S : d <= dist(k)
    IN  CHOOSE k \in S : dist(k) = best

\* str.split("\n"): the lines of s; the empty string has one empty line.
\* The string is cut at its middlemost line break and the halves are split
\* (so the depth of the evaluation grows with the logarithm of the length).
RECURSIVE SplitLines(_)
SplitLines(s) ==
    LET nls == {i \in 1..Len(s) : s[i] = NL}
    IN  IF nls = {} THEN <<s>>
        ELSE LET k == Nearest(nls, (Len(s) + 1) \div 2)
             IN  SplitLines(SubSeq(s, 1, k - 1)) \o SplitLines(Drop(s, k))

\* a slip: the lines are joined without their line breaks
RECURSIVE JoinLinesUnbroken(_)
JoinLinesUnbroken(ls) ==
    IF ls = <<>> THEN <<>> ELSE ls[1] \o JoinLinesUnbroken(Tail(ls))

\* "\n".join(lines)
RECURSIVE JoinLines(_)
JoinLines(ls) ==
    IF ls = <<>> THEN <<>>
    ELSE IF Len(ls) = 1 THEN ls[1]
    ELSE ls[1] \o <<NL>> \o JoinLines(Tail(ls))

\* ------------------------------------------------------------- tokenizer
\* the character classes of the cl100k_base split pattern: letter, digit,
\* newline, space, and everything else
Class(c) ==
    IF c \in {"a", "b", "e", "i", "l", "F"} THEN "L"
    ELSE IF c \in {"0", "1", "2", "3", "4", "5", "6", "7", "8", "9"} THEN "N"
    ELSE IF c = NL THEN "R"
    ELSE IF c = SP THEN "S"
    ELSE "P"

ClassAt(s, i) == IF i >= 1 /\ i <= Len(s) THEN Class(s[i]) ELSE "end"

\* the last index of the run of characters of the given classes that starts
\* at i (i - 1 when the run is empty)
RECURSIVE RunEnd(_, _, _)
RunEnd(s, i, classes) ==
    IF ClassAt(s, i) \in classes THEN RunEnd(s, i + 1, classes) ELSE i - 1

\* tokens the byte-pair merges make of a run of n letters: the runs of 1, 2
\* and 4 letters are in the vocabulary and the run of 3 is not, so a longer
\* run can have fewer tokens than its prefix
LetterCost(n) == (n \div 4) + <<0, 1, 1, 2>>[(n % 4) + 1]

\* the piece the split pattern
\*   [^\r\n\p{L}\p{N}]?\p{L}+ | \p{N}{1,3} | ?[^\s\p{L}\p{N}]+[\r\n]*
\*   | \s*[\r\n]+ | \s+(?!\S) | \s+
\* matches at i: <<its last index, its number of tokens>>
Piece(s, i) ==
    LET c   == ClassAt(s, i)
        nxt == ClassAt(s, i + 1)
    IN  IF c = "L"
        THEN LET j == RunEnd(s, i, {"L"}) IN <<j, LetterCost(j - i + 1)>>
        ELSE IF c \in {"S", "P"} /\ nxt = "L"
        THEN LET j == RunEnd(s, i + 1, {"L"}) IN <<j, LetterCost(j - i)>>
        ELSE IF c = "N"
        THEN LET j == RunEnd(s, i, {"N"}) IN <<IF j > i + 2 THEN i + 2 ELSE j, 1>>
        ELSE IF c = "P"
        THEN <<RunEnd(s, RunEnd(s, i, {"P"}) + 1, {"R"}), 1>>
        ELSE IF c = "S" /\ nxt = "P"
        THEN <<RunEnd(s, RunEnd(s, i + 1, {"P"}) + 1, {"R"}), 1>>
        ELSE LET w   == RunEnd(s, i, {"S", "R"})
                 nls == {k \in i..w : s[k] = NL}
             IN  IF nls # {}
                 THEN <<CHOOSE k \in nls : \A m \in nls : m <= k, 1>>
                 ELSE IF w = Len(s) THEN <<w, 1>>
                 ELSE IF w > i THEN <<w - 1, 1>>
                 ELSE <<i, 1>>

RECURSIVE TokensFrom(_, _)
TokensFrom(s, i) ==
    IF i > Len(s) THEN 0
    ELSE LET p == Piece(s, i) IN p[2] + TokensFrom(s, p[1] + 1)

\* len(encoder.encode(text)) under cl100k_base: the text is cut into pieces
\* by the split pattern and each piece is merged into tokens.  A letter that
\* follows a line break always starts a piece and no piece before it looks
\* past it, so a text is counted in two halves around such a place (the
\* depth of the evaluation then grows with the logarithm of the line count).
RECURSIVE count_tokens(_)
count_tokens(text) ==
    LET cuts == {k \in 2..Len(text) : text[k - 1] = NL /\ Class(text[k]) = "L"}
    IN  IF cuts = {} THEN TokensFrom(text, 1)
        ELSE LET k == Nearest(cuts, (Len(text) + 1) \div 2)
             IN  count_tokens(SubSeq(text, 1, k - 1)) + count_tokens(Drop(text, k - 1))

\* ------------------------------------------------------------- formatting
\* a slip: the section starts with the path, without "File: "
FormatWithoutLabel(filepath, content) == filepath \o <<NL>> \o content

\* f"File: {filepath}\n{content}"
format_file_section(filepath, content) ==
    <<"F", "i", "l", "e", ":", SP>> \o filepath \o <<NL>> \o content

\* str(n) for n >= 0
RECURSIVE Decimal(_)
Decimal(n) ==
    LET d == <<"0", "1", "2", "3", "4", "5", "6", "7", "8", "9">>
    IN  IF n < 10 THEN <<d[n + 1]>> ELSE Decimal(n \div 10) \o <<d[(n % 10) + 1]>>

\* f"{part_number:03d}": zero-padded to a width of at least 3
Pad3(n) ==
    LET s == Decimal(n)
    IN  IF Len(s) >= 3 THEN s ELSE [i \in 1..(3 - Len(s)) |-> "0"] \o s

\* f"{prefix}_{filename}"
PartName(n, filename) == Pad3(n) \o <<"_">> \o filename

\* count_tokens(format_file_section(f"{part_number:03d}_{filename}", ""))
PartHeaderTokens(n, filename) ==
    count_tokens(format_file_section(PartName(n, filename), <<>>))

\* ------------------------------------------------------------- split_long_line
\* a slip: the search stops at the first character
BinarySearchOneChar(current_part, left, right, available) ==
    IF count_tokens(Take(current_part, 1)) <= available THEN 1 ELSE 0

\* the binary search of split_long_line: the final value of left
RECURSIVE BinarySearch(_, _, _, _)
BinarySearch(current_part, left, right, available_tokens) ==
    IF left < right - 1
    THEN LET mid == (left + right) \div 2
         IN  IF count_tokens(Take(current_part, mid)) <= available_tokens
             THEN BinarySearch(current_part, mid, right, available_tokens)
             ELSE BinarySearch(current_part, left, mid, available_tokens)
    ELSE left

\* a slip: nothing is taken when the search leaves nothing
ForcedPartNone(remaining) == <<>>

\* the fragment taken when the search leaves nothing
ForcedPart(remaining) ==
    LET half == Len(remaining) \div 2
    IN  Take(remaining, IF half > 1 THEN half ELSE 1)

\* the inner while loop of split_long_line: the fragment cut from remaining
RECURSIVE TakePart(_, _, _)
TakePart(current_part, remaining, available_tokens) ==
    IF count_tokens(current_part) > available_tokens
    THEN LET left == BinarySearch(current_part, 0, Len(current_part), available_tokens)
             cut  == Take(current_part, left)
         IN  IF cut = <<>> THEN ForcedPart(remaining)
             ELSE TakePart(cut, remaining, available_tokens)
    ELSE current_part

\* ------------------------------------------------------------- state
VARIABLES
    content_by_file,      \* the argument: <<name, text>> pairs in insertion order
    token_limit,          \* the argument
    pc,                   \* "file", "whole", "long", "split", "fallback", "done"
    chunks,               \* the output list
    current_chunk,        \* the accumulator of whole files
    current_chunk_tokens,
    order,                \* sorted(content_by_file.keys())
    fi,                   \* position of the for loop over order
    lines,                \* content.split("\n") of the current file
    li,                   \* position of the for loop over lines
    part_number,
    part_lines,
    current_part_tokens,
    line,                 \* split_long_line: its argument line
    remaining,            \* split_long_line: remaining
    sl_part_number,       \* split_long_line: its own part_number
    line_chunks,          \* split_long_line: line_chunks
    returned,             \* the calls that returned before this one, with their results
    self,                 \* the invocation whose locals the variables above hold
    other,                \* the locals of the invocations that are suspended
    files,                \* concatenate_files: its argument files, as they are on disk
    base_path,            \* concatenate_files: its argument
    repository_url,       \* concatenate_files: its argument
    target_dir,           \* concatenate_files: its argument
    cf_pc,                \* concatenate_files: "idle", "enter", "loop", "returned", "raised"
    result,               \* concatenate_files: result
    cf_i,                 \* concatenate_files: position of the for loop over files
    artifact,             \* concatenate_files: the string returned
    glob,                 \* a call of glob_files: its arguments, the disk, its position and result
    urls,                 \* a call of parse_multi_urls
    tree,                 \* a call of clean_directory and the directory tree on disk
    trunc,                \* a call of truncate_text_by_tokens
    cache,                \* a SchemaCache: its files on disk and the call of get
    analysis              \* a call of analyze_directories and its tasks

vars == <<content_by_file, token_limit, pc, chunks, current_chunk,
          current_chunk_tokens, order, fi, lines, li, part_number, part_lines,
          current_part_tokens, line, remaining, sl_part_number, line_chunks,
          returned, self, other, files, base_path, repository_url, target_dir,
          cf_pc, result, cf_i, artifact, glob, urls, tree, trunc, cache, analysis>>

accumulator == <<chunks, current_chunk, current_chunk_tokens>>
part_vars == <<part_number, part_lines, current_part_tokens>>
split_vars == <<line, remaining, sl_part_number, line_chunks>>
concat_vars == <<files, base_path, repository_url, target_dir, cf_pc, result,
                 cf_i, artifact>>
other_calls == <<glob, urls, tree, trunc, cache, analysis>>
call_vars == <<content_by_file, token_limit, order, returned, self, other,
               concat_vars, other_calls>>
file_vars == <<lines, li>>

\* all strings over the alphabet of length at most n
Texts(n) == UNION {[1..k -> Alphabet] : k \in 0..n}

\* the content maps chunk_content is called with
ContentMaps ==
    {<<<<f, t>>>> : f \in Names, t \in Texts(MaxLen)}
    \cup UNION {{<<<<fg[1], t>>, <<fg[2], u>>>> :
                    fg \in {p \in Names \X Names : p[1] # p[2]},
                    t \in [1..k -> Alphabet], u \in Texts(MaxPairLen - k)} :
                k \in 0..MaxPairLen}

Keys(m) == {m[i][1] : i \in 1..Len(m)}

\* content_by_file[filename]
GetContent(m, name) == m[CHOOSE i \in 1..Len(m) : m[i][1] = name][2]

\* a slip: the keys are taken in insertion order, not sorted
KeyOrderInserted(m) == [i \in 1..Len(m) |-> m[i][1]]

\* sorted(content_by_file.keys())
KeyOrder(m) == SortedSeq(Keys(m))

filename == order[fi]
content == GetContent(content_by_file, filename)

\* lines 217-219 and the head of the for loop of line 229
Enter(m, limit) ==
    /\ content_by_file' = m
    /\ token_limit' = limit
    /\ chunks' = <<>>
    /\ current_chunk' = <<>>
    /\ current_chunk_tokens' = 0
    /\ order' = KeyOrder(m)
    /\ fi' = 1
    /\ pc' = "file"
    /\ lines' = <<>>
    /\ li' = 0
    /\ part_number' = 0
    /\ part_lines' = <<>>
    /\ current_part_tokens' = 0
    /\ line' = <<>>
    /\ remaining' = <<>>
    /\ sl_part_number' = 0
    /\ line_chunks' = <<>>
    /\ UNCHANGED <<concat_vars, other_calls>>

\* no call of the other functions is under way
Idle == [pc |-> "idle"]
NoOtherCalls ==
    /\ glob = Idle
    /\ urls = Idle
    /\ tree = Idle
    /\ trunc = Idle
    /\ cache = Idle
    /\ analysis = Idle

\* no call of concatenate_files is under way
NoConcat ==
    /\ files = <<>>
    /\ base_path = <<>>
    /\ repository_url = <<>>
    /\ target_dir = <<>>
    /\ cf_pc = "idle"
    /\ result = <<>>
    /\ cf_i = 0
    /\ artifact = <<>>

InitWith(m, limit) ==
    /\ content_by_file = m
    /\ token_limit = limit
    /\ chunks = <<>>
    /\ current_chunk = <<>>
    /\ current_chunk_tokens = 0
    /\ order = KeyOrder(m)
    /\ fi = 1
    /\ pc = "file"
    /\ lines = <<>>
    /\ li = 0
    /\ part_number = 0
    /\ part_lines = <<>>
    /\ current_part_tokens = 0
    /\ line = <<>>
    /\ remaining = <<>>
    /\ sl_part_number = 0
    /\ line_chunks = <<>>
    /\ returned = <<>>
    /\ self = 1
    /\ other = <<>>
    /\ NoConcat
    /\ NoOtherCalls

Init == \E m \in ContentMaps, limit \in 1..MaxBudget : InitWith(m, limit)

\* a file of n one-letter lines
ManyLines(n) == [i \in 1..(2 * n - 1) |-> IF i % 2 = 1 THEN "a" ELSE NL]

\* a call with one file of MaxParts lines and a budget that holds the header
\* of a part and one line, so that every line becomes a part
InitManyParts ==
    InitWith(<<<<<<"b">>, ManyLines(MaxParts)>>>>, PartHeaderTokens(1, <<"b">>) + 1)

\* the lines of at most n letters and blanks
Lines(n) == UNION {[1..k -> {"a", SP}] : k \in 0..n}

\* a call with one file of one line
InitOneLine ==
    \E t \in Lines(MaxLineLen), limit \in 1..MaxBudget :
        InitWith(<<<<<<"b">>, t>>>>, limit)

\* flush_current_chunk(): the new <<chunks, current_chunk, current_chunk_tokens>>
flush_current_chunk(ch, cc, cct) ==
    IF Strip(cc) # <<>> THEN <<Append(ch, Strip(cc)), <<>>, 0>> ELSE <<ch, cc, cct>>

\* flush_current_chunk() followed by chunks.append(section)
FlushThenAppend(section) ==
    LET f == flush_current_chunk(chunks, current_chunk, current_chunk_tokens)
    IN  /\ chunks' = Append(f[1], section)
        /\ current_chunk' = f[2]
        /\ current_chunk_tokens' = f[3]

\* lines 234-244: some line does not fit under the header of the file
HasLongLines(ls, name, limit) ==
    \E i \in 1..Len(ls) :
        count_tokens(ls[i]) > limit - count_tokens(format_file_section(name, <<>>))

\* lines 229-246 and 299-304, 317-321: the next file is taken and classified
BeginFile ==
    /\ pc = "file"
    /\ fi <= Len(order)
    /\ lines' = SplitLines(content)
    /\ li' = 1
    /\ IF HasLongLines(SplitLines(content), filename, token_limit)
       THEN /\ pc' = "long"
            /\ part_number' = 1
            /\ part_lines' = <<>>
            /\ current_part_tokens' = 0
       ELSE IF count_tokens(format_file_section(filename, content)) <= token_limit
       THEN /\ pc' = "whole"
            /\ UNCHANGED part_vars
       ELSE /\ pc' = "fallback"
            /\ part_number' = 1
            /\ part_lines' = <<>>
            /\ current_part_tokens' = 0
    /\ UNCHANGED <<accumulator, fi, split_vars, call_vars>>

\* a slip: the file is packed only when the joined text is below the budget
WholeFileStrict ==
    /\ pc = "whole"
    /\ LET full_section   == format_file_section(filename, content)
           section_tokens == count_tokens(full_section)
           candidate      == current_chunk \o <<NL, NL>> \o full_section
           flushed        == flush_current_chunk(chunks, current_chunk,
                                                 current_chunk_tokens)
       IN  IF current_chunk # <<>> /\ count_tokens(candidate) < token_limit
           THEN /\ current_chunk' = candidate
                /\ current_chunk_tokens' = count_tokens(candidate)
                /\ UNCHANGED chunks
           ELSE /\ chunks' = IF current_chunk # <<>> THEN flushed[1] ELSE chunks
                /\ current_chunk' = full_section
                /\ current_chunk_tokens' = section_tokens
    /\ fi' = fi + 1
    /\ pc' = "file"
    /\ UNCHANGED <<file_vars, part_vars, split_vars, call_vars>>

\* lines 300-316: a file that fits is packed into the accumulator or opens a
\* new one
WholeFile ==
    /\ pc = "whole"
    /\ LET full_section   == format_file_section(filename, content)
           section_tokens == count_tokens(full_section)
           candidate      == current_chunk \o <<NL, NL>> \o full_section
           flushed        == flush_current_chunk(chunks, current_chunk,
                                                 current_chunk_tokens)
       IN  IF current_chunk # <<>> /\ count_tokens(candidate) <= token_limit
           THEN /\ current_chunk' = candidate
                /\ current_chunk_tokens' = count_tokens(candidate)
                /\ UNCHANGED chunks
           ELSE /\ chunks' = IF current_chunk # <<>> THEN flushed[1] ELSE chunks
                /\ current_chunk' = full_section
                /\ current_chunk_tokens' = section_tokens
    /\ fi' = fi + 1
    /\ pc' = "file"
    /\ UNCHANGED <<file_vars, part_vars, split_vars, call_vars>>

\* lines 276-292 and 328-344: a line that fits under the header joins the
\* current part, or the part is emitted and the line opens the next one
AddLine(ln) ==
    LET header_tokens == PartHeaderTokens(part_number, filename)
        line_tokens   == count_tokens(ln)
    IN  IF current_part_tokens + line_tokens + header_tokens <= token_limit
        THEN /\ part_lines' = Append(part_lines, ln)
             /\ current_part_tokens' = current_part_tokens + line_tokens
             /\ UNCHANGED <<accumulator, part_number>>
        ELSE IF part_lines # <<>>
        THEN /\ FlushThenAppend(format_file_section(PartName(part_number, filename),
                                                    JoinLines(part_lines)))
             /\ part_number' = part_number + 1
             /\ part_lines' = <<ln>>
             /\ current_part_tokens' = line_tokens
        ELSE /\ FlushThenAppend(format_file_section(PartName(part_number, filename), ln))
             /\ part_number' = part_number + 1
             /\ UNCHANGED <<part_lines, current_part_tokens>>

\* lines 253-258 and 274-292: one line of a file with long lines that fits
LongFileLine ==
    /\ pc = "long"
    /\ li <= Len(lines)
    /\ ~(count_tokens(lines[li]) > token_limit - PartHeaderTokens(part_number, filename))
    /\ AddLine(lines[li])
    /\ li' = li + 1
    /\ UNCHANGED <<pc, fi, lines, split_vars, call_vars>>

\* lines 253-270: an oversized line; the lines accumulated so far are emitted
\* as a part, and split_long_line is entered (lines 164-165)
LongFileSplit ==
    /\ pc = "long"
    /\ li <= Len(lines)
    /\ count_tokens(lines[li]) > token_limit - PartHeaderTokens(part_number, filename)
    /\ IF part_lines # <<>>
       THEN /\ FlushThenAppend(format_file_section(PartName(part_number, filename),
                                                   JoinLines(part_lines)))
            /\ part_number' = part_number + 1
            /\ part_lines' = <<>>
            /\ current_part_tokens' = 0
       ELSE UNCHANGED <<accumulator, part_vars>>
    /\ line' = lines[li]
    /\ remaining' = lines[li]
    /\ sl_part_number' = part_number'
    /\ line_chunks' = <<>>
    /\ pc' = "split"
    /\ UNCHANGED <<fi, file_vars, call_vars>>

\* a slip: one character too many is dropped from remaining
RestSkipping(rem, current_part) == Drop(rem, Len(current_part) + 1)

\* remaining[len(current_part):]
Rest(rem, current_part) == Drop(rem, Len(current_part))

\* lines 167-203: one iteration of the while loop of split_long_line
SplitStep ==
    /\ pc = "split"
    /\ remaining # <<>>
    /\ LET available_tokens == token_limit - PartHeaderTokens(sl_part_number, filename)
           current_part     == TakePart(remaining, remaining, available_tokens)
           chunk            == format_file_section(PartName(sl_part_number, filename),
                                                   current_part)
           rest             == Rest(remaining, current_part)
       IN  /\ line_chunks' = Append(line_chunks, chunk)
           /\ sl_part_number' = sl_part_number + 1
           /\ remaining' = IF Len(rest) = Len(line) THEN Drop(rest, 1) ELSE rest
    /\ UNCHANGED <<pc, accumulator, fi, file_vars, part_vars, line, call_vars>>

\* a slip: the part number advances by one, however many fragments were made
AfterSplitByOne(n, lcs) == n + 1

\* part_number += len(line_chunks)
AfterSplit(n, lcs) == n + Len(lcs)

\* lines 205 and 270-273: split_long_line returns and its chunks are emitted
SplitReturn ==
    /\ pc = "split"
    /\ remaining = <<>>
    /\ chunks' = chunks \o line_chunks
    /\ part_number' = AfterSplit(part_number, line_chunks)
    /\ li' = li + 1
    /\ pc' = "long"
    /\ UNCHANGED <<current_chunk, current_chunk_tokens, fi, lines, part_lines,
                   current_part_tokens, split_vars, call_vars>>

\* lines 294-298 and 346-350: the lines left over are emitted as the last part
EmitLastPart ==
    IF part_lines # <<>>
    THEN FlushThenAppend(format_file_section(PartName(part_number, filename),
                                             JoinLines(part_lines)))
    ELSE UNCHANGED accumulator

\* lines 294-298: the end of a file with long lines
LongFileEnd ==
    /\ pc = "long"
    /\ li > Len(lines)
    /\ EmitLastPart
    /\ fi' = fi + 1
    /\ pc' = "file"
    /\ UNCHANGED <<file_vars, part_vars, split_vars, call_vars>>

\* lines 323-344: one line of a file that does not fit as a whole
FallbackLine ==
    /\ pc = "fallback"
    /\ li <= Len(lines)
    /\ AddLine(lines[li])
    /\ li' = li + 1
    /\ UNCHANGED <<pc, fi, lines, split_vars, call_vars>>

\* lines 346-350: the end of a file that does not fit as a whole
FallbackEnd ==
    /\ pc = "fallback"
    /\ li > Len(lines)
    /\ EmitLastPart
    /\ fi' = fi + 1
    /\ pc' = "file"
    /\ UNCHANGED <<file_vars, part_vars, split_vars, call_vars>>

\* lines 352-353: the last flush and the return
Finish ==
    /\ pc = "file"
    /\ fi > Len(order)
    /\ LET f == flush_current_chunk(chunks, current_chunk, current_chunk_tokens)
       IN  /\ chunks' = f[1]
           /\ current_chunk' = f[2]
           /\ current_chunk_tokens' = f[3]
    /\ pc' = "done"
    /\ UNCHANGED <<fi, file_vars, part_vars, split_vars, call_vars>>

\* the insertion orders of the pairs of m
Reorderings(m) ==
    IF Len(m) = 2 THEN {m, <<m[2], m[1]>>} ELSE {m}

\* a further call of chunk_content, after the first returned, with the same
\* budget and the same pairs inserted in any order
CallAgain ==
    /\ pc = "done"
    /\ returned = <<>>
    /\ returned' = <<[content_by_file |-> content_by_file,
                      token_limit |-> token_limit, result |-> chunks]>>
    /\ \E m \in Reorderings(content_by_file) : Enter(m, token_limit)
    /\ UNCHANGED <<self, other>>

Next ==
    \/ BeginFile
    \/ WholeFile
    \/ LongFileLine
    \/ LongFileSplit
    \/ SplitStep
    \/ SplitReturn
    \/ LongFileEnd
    \/ FallbackLine
    \/ FallbackEnd
    \/ Finish

Spec == Init /\ [][Next]_vars

\* the same with further calls
NextCalls == Next \/ CallAgain

SpecCalls == Init /\ [][NextCalls]_vars

\* the calls of Spec and the call on the file of many lines
SpecManyParts == (Init \/ InitManyParts) /\ [][Next]_vars

\* the calls of Spec and the calls on a file of one line
SpecOneLine == (Init \/ InitOneLine) /\ [][Next]_vars

\* the files of one line of letters and blanks between short lines
SplitFiles ==
    {pre \o t \o post :
        pre \in {<<>>, <<NL>>, <<"a", NL>>, <<"a", NL, "a", NL>>},
        t \in Lines(MaxLineLen),
        post \in {<<>>, <<NL, "a">>}}

\* a call with one such file
InitSplitLines ==
    \E t \in SplitFiles, limit \in 1..MaxBudget : InitWith(<<<<<<"b">>, t>>>>, limit)

\* the calls of Spec and the calls on a file with a line to split
SpecSplitLines == (Init \/ InitSplitLines) /\ [][Next]_vars

\* ------------------------------------------------------------- concatenate_files
\* the strings of ss joined by sep
RECURSIVE JoinWith(_, _)
JoinWith(ss, sep) ==
    IF ss = <<>> THEN <<>>
    ELSE IF Len(ss) = 1 THEN ss[1]
    ELSE ss[1] \o sep \o JoinWith(Tail(ss), sep)

\* base is an ancestor of path
IsUnder(path, base) ==
    Len(path) > Len(base) /\ SubSeq(path, 1, Len(base)) = base

\* str(file.relative_to(base_path)), for a file under base_path
RelativeTo(path, base) == JoinWith(Drop(path, Len(base)), <<"/">>)

\* the heading and the keys of the metadata block
HEADING == <<"#", SP, "M", "e", "t", "a", "d", "a", "t", "a">>
KEY_TOTAL_TOKENS == <<"t", "o", "t", "a", "l", "_", "t", "o", "k", "e", "n", "s">>
KEY_FILE_COUNT == <<"f", "i", "l", "e", "_", "c", "o", "u", "n", "t">>
KEY_REPOSITORY == <<"r", "e", "p", "o", "s", "i", "t", "o", "r", "y">>
KEY_TARGET_DIRECTORY == <<"t", "a", "r", "g", "e", "t", "_", "d", "i", "r", "e", "c", "t", "o", "r", "y">>
KEY_GENERATED == <<"g", "e", "n", "e", "r", "a", "t", "e", "d">>

\* the metadata of lines 118-124, as (key, str(value)) in insertion order
Metadata(fs, url, dir, now) ==
    << <<KEY_TOTAL_TOKENS, Decimal(0)>>,
       <<KEY_FILE_COUNT, Decimal(Len(fs))>>,
       <<KEY_REPOSITORY, url>>,
       <<KEY_TARGET_DIRECTORY, dir>>,
       <<KEY_GENERATED, now>> >>

\* a slip: the repository comes before the counts
MetadataLinesReordered(md) ==
    <<HEADING>> \o [k \in 1..Len(md) |->
                       md[<<3, 1, 2, 4, 5>>[k]][1] \o <<":", SP>> \o md[<<3, 1, 2, 4, 5>>[k]][2]]

\* lines 127-129: "# Metadata" and one "key: value" line per key
MetadataLines(md) ==
    <<HEADING>> \o [k \in 1..Len(md) |-> md[k][1] \o <<":", SP>> \o md[k][2]]

\* the paths (as their components), contents and kinds of the files on disk
FilePaths ==
    {<< <<"r">>, <<"f">> >>, << <<"r">>, <<"d">>, <<"g">> >>, << <<"s">>, <<"f">> >>}
Contents == {<<>>, <<"x", NL>>, <<NL, NL, "x">>}
FileStates ==
    {[path |-> p, binary |-> FALSE, decodable |-> TRUE, content |-> c] :
        p \in FilePaths, c \in Contents}
    \cup {[path |-> p, binary |-> TRUE, decodable |-> TRUE, content |-> <<"x", NL>>] :
             p \in FilePaths}
    \cup {[path |-> p, binary |-> FALSE, decodable |-> FALSE, content |-> <<"x", NL>>] :
             p \in FilePaths}

\* the lists of at most n files
FileLists(n) == UNION {[1..k -> FileStates] : k \in 0..n}

\* the values of datetime.now().isoformat()
Timestamps == {<<"1">>, <<"2">>}

\* a call concatenate_files(files, base_path, repository_url, target_dir);
\* the repository and the directory label are strings of one line
InitConcat ==
    /\ files \in FileLists(MaxFiles)
    /\ base_path = << <<"r">> >>
    /\ repository_url \in {<<"u">>, <<"h", ":", "/", "v">>}
    /\ target_dir \in {<<>>, <<"/", "d">>}
    /\ cf_pc = "enter"
    /\ result = <<>>
    /\ cf_i = 0
    /\ artifact = <<>>
    /\ content_by_file = <<>>
    /\ token_limit = 1
    /\ chunks = <<>>
    /\ current_chunk = <<>>
    /\ current_chunk_tokens = 0
    /\ order = <<>>
    /\ fi = 1
    /\ pc = "idle"
    /\ lines = <<>>
    /\ li = 0
    /\ part_number = 0
    /\ part_lines = <<>>
    /\ current_part_tokens = 0
    /\ line = <<>>
    /\ remaining = <<>>
    /\ sl_part_number = 0
    /\ line_chunks = <<>>
    /\ returned = <<>>
    /\ self = 1
    /\ other = <<>>
    /\ NoOtherCalls

\* no call of chunk_content is under way
NoChunking ==
    /\ content_by_file = <<>>
    /\ token_limit = 1
    /\ chunks = <<>>
    /\ current_chunk = <<>>
    /\ current_chunk_tokens = 0
    /\ order = <<>>
    /\ fi = 1
    /\ pc = "idle"
    /\ lines = <<>>
    /\ li = 0
    /\ part_number = 0
    /\ part_lines = <<>>
    /\ current_part_tokens = 0
    /\ line = <<>>
    /\ remaining = <<>>
    /\ sl_part_number = 0
    /\ line_chunks = <<>>
    /\ returned = <<>>
    /\ self = 1
    /\ other = <<>>

\* the variables of chunk_content
chunk_vars == <<content_by_file, token_limit, pc, accumulator, order, fi, file_vars,
                part_vars, split_vars, returned, self, other>>

\* what a step of concatenate_files leaves alone
ConcatFrame ==
    UNCHANGED <<content_by_file, token_limit, pc, accumulator, order, fi, file_vars,
                part_vars, split_vars, returned, self, other, files, base_path,
                repository_url, target_dir, other_calls>>

\* a slip: the empty list gets the metadata block too
ConcatEnterAlways ==
    /\ cf_pc = "enter"
    /\ \E now \in Timestamps :
          result' = MetadataLines(Metadata(files, repository_url, target_dir, now))
    /\ cf_i' = 1
    /\ cf_pc' = "loop"
    /\ UNCHANGED artifact
    /\ ConcatFrame

\* lines 114-129: the empty list returns "", any other list starts result
\* with the metadata block
ConcatEnter ==
    /\ cf_pc = "enter"
    /\ IF files = <<>>
       THEN /\ artifact' = <<>>
            /\ cf_pc' = "returned"
            /\ UNCHANGED <<result, cf_i>>
       ELSE /\ \E now \in Timestamps :
                  result' = MetadataLines(Metadata(files, repository_url, target_dir, now))
            /\ cf_i' = 1
            /\ cf_pc' = "loop"
            /\ UNCHANGED artifact
    /\ ConcatFrame

\* lines 132-136: a binary file is skipped
ConcatSkipBinary ==
    /\ cf_pc = "loop"
    /\ cf_i <= Len(files)
    /\ files[cf_i].binary
    /\ cf_i' = cf_i + 1
    /\ UNCHANGED <<cf_pc, result, artifact>>
    /\ ConcatFrame

\* line 139: relative_to raises ValueError for a file that is not under
\* base_path, and only UnicodeDecodeError is caught (line 149)
ConcatRaise ==
    /\ cf_pc = "loop"
    /\ cf_i <= Len(files)
    /\ ~files[cf_i].binary
    /\ ~IsUnder(files[cf_i].path, base_path)
    /\ cf_pc' = "raised"
    /\ UNCHANGED <<result, cf_i, artifact>>
    /\ ConcatFrame

\* a slip: the separator is appended before the file is read
SkipUndecodableAfterSeparator(r) == Append(r, <<>>)

\* what is left in result when read_text raised UnicodeDecodeError
SkipUndecodable(r) == r

\* lines 138-140 and 149-151: read_text raises UnicodeDecodeError, the file
\* is skipped
ConcatSkipUndecodable ==
    /\ cf_pc = "loop"
    /\ cf_i <= Len(files)
    /\ ~files[cf_i].binary
    /\ IsUnder(files[cf_i].path, base_path)
    /\ ~files[cf_i].decodable
    /\ result' = SkipUndecodable(result)
    /\ cf_i' = cf_i + 1
    /\ UNCHANGED <<cf_pc, artifact>>
    /\ ConcatFrame

\* a slip: the content is trimmed
FileEntriesTrimmed(r, relative_path, text) ==
    (IF Len(r) > 0 THEN Append(r, <<>>) ELSE r)
        \o << <<"F", "i", "l", "e", ":", SP>> \o relative_path, Strip(text) >>

\* lines 143-148: result with the separator, the header and the content
FileEntries(r, relative_path, text) ==
    (IF Len(r) > 0 THEN Append(r, <<>>) ELSE r)
        \o << <<"F", "i", "l", "e", ":", SP>> \o relative_path, text >>

\* lines 138-148: a text file is added
ConcatAddFile ==
    /\ cf_pc = "loop"
    /\ cf_i <= Len(files)
    /\ ~files[cf_i].binary
    /\ IsUnder(files[cf_i].path, base_path)
    /\ files[cf_i].decodable
    /\ result' = FileEntries(result, RelativeTo(files[cf_i].path, base_path),
                             files[cf_i].content)
    /\ cf_i' = cf_i + 1
    /\ UNCHANGED <<cf_pc, artifact>>
    /\ ConcatFrame

\* line 153: the entries of result are joined by line breaks
ConcatReturn ==
    /\ cf_pc = "loop"
    /\ cf_i > Len(files)
    /\ artifact' = JoinWith(result, <<NL>>)
    /\ cf_pc' = "returned"
    /\ UNCHANGED <<result, cf_i>>
    /\ ConcatFrame

NextConcat ==
    \/ ConcatEnter
    \/ ConcatSkipBinary
    \/ ConcatRaise
    \/ ConcatSkipUndecodable
    \/ ConcatAddFile
    \/ ConcatReturn

SpecConcat == InitConcat /\ [][NextConcat]_vars

\* ------------------------------------------------------------- is_binary_file, glob_files
\* the strings between the separators sep of s
RECURSIVE SplitOn(_, _)
SplitOn(s, sep) ==
    IF \E i \in 1..Len(s) : s[i] = sep
    THEN LET i == CHOOSE k \in 1..Len(s) : s[k] = sep /\ \A j \in 1..(k - 1) : s[j] # sep
         IN  <<Take(s, i - 1)>> \o SplitOn(Drop(s, i), sep)
    ELSE <<s>>

\* the reverse of a sequence
Reverse(q) == [i \in 1..Len(q) |-> q[Len(q) + 1 - i]]

\* target_dir.lstrip('/')
RECURSIVE LStripSlash(_)
LStripSlash(s) == IF s # <<>> /\ s[1] = "/" THEN LStripSlash(Tail(s)) ELSE s

\* the components of a relative path string (empty components are dropped)
PathParts(s) == SelectSeq(SplitOn(s, "/"), LAMBDA c : c # <<>>)

\* base_path / target_dir.lstrip('/')
TargetPath(base, dir) == base \o PathParts(LStripSlash(dir))

\* the names of the files and directories of the disk
N_R == <<"r">>
N_T == <<"t">>
N_S == <<"s">>
N_O == <<"o">>
N_A_PY == <<"a", ".", "p", "y">>
N_B_MD == <<"b", ".", "m", "d">>
N_C == <<"c">>
N_I_PNG == <<"i", ".", "p", "n", "g">>
N_D_PY == <<"d", ".", "p", "y">>

\* the directories of the disk, and the places where a file can be, in the
\* order of the walk
Dirs == {<<N_R>>, <<N_R, N_T>>, <<N_R, N_T, N_S>>, <<N_R, N_O>>}
Places ==
    << <<N_R, N_O>>, <<N_R, N_O, N_D_PY>>, <<N_R, N_T>>, <<N_R, N_T, N_A_PY>>,
       <<N_R, N_T, N_B_MD>>, <<N_R, N_T, N_S>>, <<N_R, N_T, N_S, N_C>>,
       <<N_R, N_T, N_S, N_I_PNG>> >>
FilePlaces == {Places[i] : i \in 1..Len(Places)} \ Dirs

\* f.read(1024): the number of bytes is_binary_file looks at
ReadSize == 1024

\* what a file can be: whether it can be opened, the offsets of its null
\* bytes, and whether it decodes as text
FileKinds ==
    {[readable |-> TRUE, nulls |-> {}, decodable |-> TRUE],
     [readable |-> TRUE, nulls |-> {ReadSize - 1}, decodable |-> TRUE],
     [readable |-> TRUE, nulls |-> {ReadSize}, decodable |-> TRUE],
     [readable |-> FALSE, nulls |-> {}, decodable |-> TRUE],
     [readable |-> TRUE, nulls |-> {}, decodable |-> FALSE]}

\* the disks: at most n files, each at one of the places
Disks(n) ==
    UNION {[ps -> FileKinds] : ps \in {q \in SUBSET FilePlaces : Cardinality(q) <= n}}

\* the last component of a path
Name(path) == path[Len(path)]

\* the extension of a name, with its dot, or nothing
Extension(name) ==
    IF \E i \in 2..Len(name) : name[i] = "."
    THEN LET i == CHOOSE k \in 2..Len(name) :
                      name[k] = "." /\ \A j \in (k + 1)..Len(name) : name[j] # "."
         IN  Drop(name, i - 1)
    ELSE <<>>

\* mimetypes.guess_type(str(file_path))[0], by the extension of the name
GuessType(name) ==
    CASE Extension(name) = <<".", "p", "y">> -> "text/x-python"
      [] Extension(name) = <<".", "m", "d">> -> "text/markdown"
      [] Extension(name) = <<".", "p", "n", "g">> -> "image/png"
      [] OTHER -> "none"

\* mime_type.startswith('text/')
IsTextType(mime) == mime \in {"text/x-python", "text/markdown"}

\* a slip: a file that cannot be opened is taken for text
IsBinaryUnlessUnreadable(path, disk) ==
    IF GuessType(Name(path)) # "none" /\ ~IsTextType(GuessType(Name(path))) THEN TRUE
    ELSE IF path \notin DOMAIN disk \/ ~disk[path].readable THEN FALSE
    ELSE \E k \in disk[path].nulls : k < ReadSize

\* is_binary_file(file_path) on the disk: the MIME type first, then the null
\* bytes of the first ReadSize bytes; a file that cannot be opened is binary
is_binary_file(path, disk) ==
    IF GuessType(Name(path)) # "none" /\ ~IsTextType(GuessType(Name(path))) THEN TRUE
    ELSE IF path \notin DOMAIN disk \/ ~disk[path].readable THEN TRUE
    ELSE \E k \in disk[path].nulls : k < ReadSize

\* fnmatch of a name against a pattern with at most one "*"
Fnmatch(name, pat) ==
    IF \E i \in 1..Len(pat) : pat[i] = "*"
    THEN LET i   == CHOOSE k \in 1..Len(pat) : pat[k] = "*"
             pre == Take(pat, i - 1)
             suf == Drop(pat, i)
         IN  /\ Len(name) >= Len(pre) + Len(suf)
             /\ Take(name, Len(pre)) = pre
             /\ Drop(name, Len(name) - Len(suf)) = suf
    ELSE name = pat

\* file.match(pattern) for a relative pattern: the components of the
\* pattern match the last components of the path
PathMatch(path, pattern) ==
    LET ps == PathParts(pattern)
    IN  /\ Len(ps) <= Len(path)
        /\ \A k \in 1..Len(ps) : Fnmatch(path[Len(path) - Len(ps) + k], ps[k])

\* any(file.match(pattern) for pattern in ignore_patterns)
Ignored(path, patterns) ==
    \E k \in 1..Len(patterns) : PathMatch(path, patterns[k])

\* path is below dir
Below(path, dir) == Len(path) > Len(dir) /\ SubSeq(path, 1, Len(dir)) = dir

\* target_path.exists()
Exists(path, disk) == path \in Dirs \/ path \in DOMAIN disk

\* target_path.rglob('*'): the directories and files below the target, in
\* one of the orders the walk can take
Walk(target, disk, reverse) ==
    LET found == SelectSeq(Places, LAMBDA q : Below(q, target) /\ Exists(q, disk))
    IN  IF target \in Dirs THEN (IF reverse THEN Reverse(found) ELSE found) ELSE <<>>

\* the arguments glob_files is called with
TargetDirs ==
    {<<"/", "t">>, <<"t">>, <<"t", "/", "s">>, <<"/", "m">>, <<"t", "/">> \o N_A_PY}
IgnoreLists ==
    {<<>>, << <<"*", ".", "m", "d">> >>, << <<"s", "/", "*">> >>,
     << <<"*", ".", "m", "d">>, <<"a", ".", "*">> >>}

\* a call glob_files(base_path, target_dir, ignore_patterns, allow_missing)
InitGlob ==
    /\ \E disk \in Disks(MaxOnDisk), dir \in TargetDirs, pats \in IgnoreLists,
          allow \in BOOLEAN, rev \in BOOLEAN :
          glob = [pc |-> "enter", base_path |-> <<N_R>>, target_dir |-> dir,
                  ignore_patterns |-> pats, allow_missing |-> allow, disk |-> disk,
                  reverse |-> rev, target_path |-> <<>>, walk |-> <<>>, i |-> 0,
                  files |-> <<>>]
    /\ urls = Idle
    /\ tree = Idle
    /\ trunc = Idle
    /\ cache = Idle
    /\ analysis = Idle
    /\ NoChunking
    /\ NoConcat

\* what a step of glob_files leaves alone
GlobFrame == UNCHANGED <<chunk_vars, concat_vars, urls, tree, trunc, cache, analysis>>

\* a slip: a missing target gives the empty list whatever allow_missing is
MissingTargetAllowed(allow) == TRUE

\* lines 33-35: a missing target returns [] only when allow_missing is set
MissingTarget(allow) == allow

\* lines 31-38: the target path is built; a missing target returns [] or
\* raises ValueError, an existing one starts the walk
GlobEnter ==
    /\ glob.pc = "enter"
    /\ LET target == TargetPath(glob.base_path, glob.target_dir)
       IN  IF ~Exists(target, glob.disk)
           THEN glob' = [glob EXCEPT !.target_path = target,
                                     !.pc = IF MissingTarget(glob.allow_missing)
                                            THEN "returned" ELSE "raised"]
           ELSE glob' = [glob EXCEPT !.target_path = target,
                                     !.walk = Walk(target, glob.disk, glob.reverse),
                                     !.i = 1, !.pc = "loop"]
    /\ GlobFrame

\* lines 39-40: what is not a regular file is skipped
GlobSkipDirectory ==
    /\ glob.pc = "loop"
    /\ glob.i <= Len(glob.walk)
    /\ glob.walk[glob.i] \notin DOMAIN glob.disk
    /\ glob' = [glob EXCEPT !.i = glob.i + 1]
    /\ GlobFrame

\* lines 42-44: a file that matches an ignore pattern is skipped
GlobSkipIgnored ==
    /\ glob.pc = "loop"
    /\ glob.i <= Len(glob.walk)
    /\ glob.walk[glob.i] \in DOMAIN glob.disk
    /\ Ignored(glob.walk[glob.i], glob.ignore_patterns)
    /\ glob' = [glob EXCEPT !.i = glob.i + 1]
    /\ GlobFrame

\* lines 46-48: a binary file is skipped
GlobSkipBinary ==
    /\ glob.pc = "loop"
    /\ glob.i <= Len(glob.walk)
    /\ glob.walk[glob.i] \in DOMAIN glob.disk
    /\ ~Ignored(glob.walk[glob.i], glob.ignore_patterns)
    /\ is_binary_file(glob.walk[glob.i], glob.disk)
    /\ glob' = [glob EXCEPT !.i = glob.i + 1]
    /\ GlobFrame

\* a slip: the file is kept without the test of its ignore patterns
KeptUnfiltered(path, patterns, disk) == ~is_binary_file(path, disk)

\* the file passes lines 42-48
Kept(path, patterns, disk) == ~Ignored(path, patterns) /\ ~is_binary_file(path, disk)

\* line 50: the file is appended
GlobAppend ==
    /\ glob.pc = "loop"
    /\ glob.i <= Len(glob.walk)
    /\ glob.walk[glob.i] \in DOMAIN glob.disk
    /\ Kept(glob.walk[glob.i], glob.ignore_patterns, glob.disk)
    /\ glob' = [glob EXCEPT !.i = glob.i + 1,
                            !.files = Append(glob.files, glob.walk[glob.i])]
    /\ GlobFrame

\* line 52: return files
GlobReturn ==
    /\ glob.pc = "loop"
    /\ glob.i > Len(glob.walk)
    /\ glob' = [glob EXCEPT !.pc = "returned"]
    /\ GlobFrame

NextGlob ==
    \/ GlobEnter
    \/ GlobSkipDirectory
    \/ GlobSkipIgnored
    \/ GlobSkipBinary
    \/ GlobAppend
    \/ GlobReturn

SpecGlob == InitGlob /\ [][NextGlob]_vars

\* the file at path as concatenate_files finds it on the disk
OnDisk(path, disk) ==
    [path |-> path, binary |-> is_binary_file(path, disk),
     decodable |-> IF path \in DOMAIN disk THEN disk[path].decodable ELSE TRUE,
     content |-> <<"x", NL>>,
     readable |-> IF path \in DOMAIN disk THEN disk[path].readable ELSE FALSE,
     nulls |-> IF path \in DOMAIN disk THEN disk[path].nulls ELSE {}]

\* a call of concatenate_files on files of a disk
InitConcatOnDisk ==
    /\ \E disk \in Disks(MaxOnDisk) :
          \E ps \in UNION {[1..k -> FilePlaces] : k \in 1..MaxListed} :
              files = [k \in 1..Len(ps) |-> OnDisk(ps[k], disk)]
    /\ base_path = <<N_R, N_T>>
    /\ repository_url = <<"u">>
    /\ target_dir = <<"s">>
    /\ cf_pc = "enter"
    /\ result = <<>>
    /\ cf_i = 0
    /\ artifact = <<>>
    /\ NoChunking
    /\ NoOtherCalls

\* the calls of glob_files and of concatenate_files on the files of a disk
SpecDisk == (InitGlob \/ InitConcatOnDisk) /\ [][NextGlob \/ NextConcat]_vars

\* ------------------------------------------------------------- parse_multi_urls
\* s starts with pre
StartsWith(s, pre) == Len(s) >= Len(pre) /\ SubSeq(s, 1, Len(pre)) = pre

\* s.split(sep) for a separator of several characters
RECURSIVE SplitStr(_, _)
SplitStr(s, sep) ==
    IF \E i \in 1..(Len(s) - Len(sep) + 1) : SubSeq(s, i, i + Len(sep) - 1) = sep
    THEN LET i == CHOOSE k \in 1..(Len(s) - Len(sep) + 1) :
                      /\ SubSeq(s, k, k + Len(sep) - 1) = sep
                      /\ \A j \in 1..(k - 1) : SubSeq(s, j, j + Len(sep) - 1) # sep
         IN  <<Take(s, i - 1)>> \o SplitStr(Drop(s, i + Len(sep) - 1), sep)
    ELSE <<s>>

\* s.split('/', 1)
SplitOnce(s) ==
    IF \E i \in 1..Len(s) : s[i] = "/"
    THEN LET i == CHOOSE k \in 1..Len(s) : s[k] = "/" /\ \A j \in 1..(k - 1) : s[j] # "/"
         IN  <<Take(s, i - 1), Drop(s, i)>>
    ELSE <<s>>

GITHUB == <<"h", "t", "t", "p", "s", ":", "/", "/", "g", "i", "t", "h", "u", "b", ".", "c", "o", "m", "/">>
TREE == <<"/", "t", "r", "e", "e", "/">>
MASTER == <<"m", "a", "s", "t", "e", "r">>

\* the entries of the lists given to parse_multi_urls
UrlEntries ==
    {GITHUB \o <<"o", "/", "r", "/", "t", "r", "e", "e", "/", "m", "/", "a">>,
     <<"@">> \o GITHUB \o <<"o", "/", "r", "/", "t", "r", "e", "e", "/", "m", "/", "b">>,
     GITHUB \o <<"o", "/", "r", "/", "t", "r", "e", "e", "/", "m">>,
     GITHUB \o <<"o", "/", "r", "/", "t", "r", "e", "e", "/", "n", "/", "a">>,
     GITHUB \o <<"o", "/", "q", "/", "t", "r", "e", "e", "/", "m", "/", "a">>,
     GITHUB \o <<"o", "/", "r">>,
     <<"a", "/", "b">>,
     <<"@", "a", "/", "c">>,
     <<"c", "/", "d">>,
     <<"/", "a", "/", "b">>,
     <<"a">>}

\* url[1:] if url.startswith('@') else url
Cleaned(url) == IF StartsWith(url, <<"@">>) THEN Tail(url) ELSE url

\* Path(url): whether it is absolute, and its components
IsAbsolute(url) == StartsWith(url, <<"/">>)
Parts(url) == SelectSeq(SplitOn(url, "/"), LAMBDA c : c # <<>> /\ c # <<".">>)

\* str(path)
PathStr(abs, parts) ==
    IF abs THEN <<"/">> \o JoinWith(parts, <<"/">>)
    ELSE IF parts = <<>> THEN <<".">> ELSE JoinWith(parts, <<"/">>)

\* the longest common prefix of two sequences
RECURSIVE CommonPrefix(_, _)
CommonPrefix(a, b) ==
    IF a # <<>> /\ b # <<>> /\ a[1] = b[1]
    THEN <<a[1]>> \o CommonPrefix(Tail(a), Tail(b))
    ELSE <<>>

\* the components common to all the paths of a non-empty list
RECURSIVE CommonParts(_)
CommonParts(ps) ==
    IF Len(ps) = 1 THEN Parts(ps[1])
    ELSE CommonPrefix(Parts(ps[1]), CommonParts(Tail(ps)))

\* os.path.commonpath of the paths, which are all absolute or all relative
CommonPath(ps) ==
    (IF IsAbsolute(ps[1]) THEN <<"/">> ELSE <<>>) \o JoinWith(CommonParts(ps), <<"/">>)

\* Path(url).relative_to(base) is defined
IsRelativeTo(url, base) ==
    /\ IsAbsolute(url) = IsAbsolute(base)
    /\ StartsWith(Parts(url), Parts(base))

\* str(Path(url).relative_to(base))
RelativeStr(url, base) == PathStr(FALSE, Drop(Parts(url), Len(Parts(base))))

\* a call parse_multi_urls(urls)
InitUrls ==
    /\ \E us \in UNION {[1..k -> UrlEntries] : k \in 0..MaxUrls} :
          urls = [pc |-> "enter", urls |-> us, cleaned_urls |-> <<>>, k |-> 0,
                  error |-> "none", repo_url |-> <<>>, branch |-> <<>>,
                  target_dirs |-> <<>>]
    /\ glob = Idle
    /\ tree = Idle
    /\ trunc = Idle
    /\ cache = Idle
    /\ analysis = Idle
    /\ NoChunking
    /\ NoConcat

\* what a step of parse_multi_urls leaves alone
UrlsFrame == UNCHANGED <<chunk_vars, concat_vars, glob, tree, trunc, cache, analysis>>

\* raise the error
Raised(u, error) == [u EXCEPT !.pc = "raised", !.error = error]

\* lines 140-151: an empty list and a list that mixes GitHub URLs with other
\* entries raise ValueError; the @ prefixes are stripped
UrlsEnter ==
    /\ urls.pc = "enter"
    /\ LET cleaned   == [k \in 1..Len(urls.urls) |-> Cleaned(urls.urls[k])]
           is_github == \A k \in 1..Len(cleaned) : StartsWith(cleaned[k], GITHUB)
           is_local  == \A k \in 1..Len(cleaned) : ~StartsWith(cleaned[k], GITHUB)
       IN  IF urls.urls = <<>> THEN urls' = Raised(urls, "ValueError")
           ELSE IF ~(is_github \/ is_local)
           THEN urls' = Raised([urls EXCEPT !.cleaned_urls = cleaned], "ValueError")
           ELSE urls' = [urls EXCEPT !.cleaned_urls = cleaned,
                                     !.pc = IF is_github THEN "first" ELSE "local"]
    /\ UrlsFrame

\* lines 153-161: the repository URL and the branch of the first URL
UrlsFirst ==
    /\ urls.pc = "first"
    /\ LET parts == SplitStr(urls.cleaned_urls[1], TREE)
       IN  IF Len(parts) # 2 THEN urls' = Raised(urls, "ValueError")
           ELSE urls' = [urls EXCEPT !.repo_url = parts[1],
                                     !.branch = SplitOnce(parts[2])[1],
                                     !.k = 2, !.pc = "validate"]
    /\ UrlsFrame

\* lines 164-175: every other URL has the repository and the branch of the
\* first
UrlsValidate ==
    /\ urls.pc = "validate"
    /\ urls.k <= Len(urls.cleaned_urls)
    /\ LET parts == SplitStr(urls.cleaned_urls[urls.k], TREE)
       IN  IF Len(parts) # 2 THEN urls' = Raised(urls, "ValueError")
           ELSE IF parts[1] # urls.repo_url THEN urls' = Raised(urls, "ValueError")
           ELSE IF SplitOnce(parts[2])[1] # urls.branch
           THEN urls' = Raised(urls, "ValueError")
           ELSE urls' = [urls EXCEPT !.k = urls.k + 1]
    /\ UrlsFrame

\* line 178 and 208-212: the target directories are what follows the branch;
\* the index [1] of a URL with nothing after its branch raises IndexError
UrlsTargets ==
    /\ urls.pc = "validate"
    /\ urls.k > Len(urls.cleaned_urls)
    /\ LET after == [k \in 1..Len(urls.cleaned_urls) |->
                        SplitOnce(SplitStr(urls.cleaned_urls[k], TREE)[2])]
       IN  IF \E k \in 1..Len(after) : Len(after[k]) < 2
           THEN urls' = Raised(urls, "IndexError")
           ELSE urls' = [urls EXCEPT !.target_dirs = [k \in 1..Len(after) |-> after[k][2]],
                                     !.pc = "returned"]
    /\ UrlsFrame

\* lines 181-193 and 206-212: one local path
UrlsLocalSingle ==
    /\ urls.pc = "local"
    /\ Len(urls.cleaned_urls) = 1
    /\ LET url   == urls.cleaned_urls[1]
           parts == Parts(url)
           split == SplitOnce(PathStr(FALSE, parts))
       IN  IF IsAbsolute(url)
           THEN urls' = [urls EXCEPT
                    !.repo_url = PathStr(TRUE, Take(parts, Len(parts) - 1)),
                    !.target_dirs = <<IF parts = <<>> THEN <<>> ELSE parts[Len(parts)]>>,
                    !.branch = MASTER, !.pc = "returned"]
           ELSE urls' = [urls EXCEPT
                    !.repo_url = split[1],
                    !.target_dirs = <<IF Len(split) > 1 THEN split[2] ELSE <<".">>>>,
                    !.branch = MASTER, !.pc = "returned"]
    /\ UrlsFrame

\* lines 194-212: several local paths; commonpath raises ValueError on a mix
\* of absolute and relative paths, relative_to on a path outside the parent
UrlsLocalMany ==
    /\ urls.pc = "local"
    /\ Len(urls.cleaned_urls) > 1
    /\ LET us     == urls.cleaned_urls
           common == CommonPath(us)
           first  == SplitOnce(PathStr(IsAbsolute(us[1]), Parts(us[1])))[1]
           parent == IF common = <<>> \/ common = <<".">> THEN first ELSE common
       IN  IF \E j, k \in 1..Len(us) : IsAbsolute(us[j]) # IsAbsolute(us[k])
           THEN urls' = Raised(urls, "ValueError")
           ELSE IF \E k \in 1..Len(us) : ~IsRelativeTo(us[k], parent)
           THEN urls' = Raised([urls EXCEPT !.repo_url = parent], "ValueError")
           ELSE urls' = [urls EXCEPT
                    !.repo_url = parent,
                    !.target_dirs = [k \in 1..Len(us) |-> RelativeStr(us[k], parent)],
                    !.branch = MASTER, !.pc = "returned"]
    /\ UrlsFrame

NextUrls ==
    \/ UrlsEnter
    \/ UrlsFirst
    \/ UrlsValidate
    \/ UrlsTargets
    \/ UrlsLocalSingle
    \/ UrlsLocalMany

SpecUrls == InitUrls /\ [][NextUrls]_vars

\* ------------------------------------------------------------- clean_directory
\* the directory to clean, in its parent, and what can be in them
N_P == <<"p">>
N_D == <<"d">>
TheParent == <<N_P>>
TheDirectory == <<N_P, N_D>>
TreeFiles ==
    {<<N_P, N_I_PNG>>, <<N_P, N_D, N_A_PY>>, <<N_P, N_D, N_S, N_C>>,
     <<N_P, N_D, N_S, N_T, N_B_MD>>}
TreeDirs == {<<N_P, N_D>>, <<N_P, N_D, N_S>>, <<N_P, N_D, N_S, N_T>>, <<N_P, N_D, N_O>>}
TreeOrder ==
    << <<N_P, N_I_PNG>>, <<N_P, N_D>>, <<N_P, N_D, N_A_PY>>, <<N_P, N_D, N_O>>,
       <<N_P, N_D, N_S>>, <<N_P, N_D, N_S, N_C>>, <<N_P, N_D, N_S, N_T>>,
       <<N_P, N_D, N_S, N_T, N_B_MD>> >>

\* the directory a path is in
ParentOf(path) == Take(path, Len(path) - 1)

\* the file systems: the parent exists, and so does the directory of
\* everything else that exists
FileSystems ==
    {fs \in SUBSET (TreeFiles \cup TreeDirs) :
        \A q \in fs : ParentOf(q) = TheParent \/ ParentOf(q) \in fs}

\* directory.iterdir(): what is in the directory, in one of two orders
Iterdir(fs, dir, reverse) ==
    LET found == SelectSeq(TreeOrder, LAMBDA q : q \in fs /\ ParentOf(q) = dir)
    IN  IF reverse THEN Reverse(found) ELSE found

\* the implementations
FILE_UTILS == "file_utils"
FILE_OPERATIONS == "file_operations"

\* the frame of a call clean_directory(dir) that found dir to exist; the
\* loop of file_utils over the files comes first, "dirs" is its second loop
Frame(fs, dir, impl, reverse) ==
    [directory |-> dir, items |-> Iterdir(fs, dir, reverse), i |-> 1,
     loop |-> IF impl = FILE_UTILS THEN "files" ELSE "items", back |-> FALSE]

\* a call clean_directory(TheDirectory) of one of the implementations
InitTree ==
    /\ \E fs \in FileSystems, impl \in {FILE_UTILS, FILE_OPERATIONS}, rev \in BOOLEAN :
          tree = [pc |-> "enter", impl |-> impl, before |-> fs, fs |-> fs,
                  reverse |-> rev, stack |-> <<>>, error |-> "none"]
    /\ glob = Idle
    /\ urls = Idle
    /\ trunc = Idle
    /\ cache = Idle
    /\ analysis = Idle
    /\ NoChunking
    /\ NoConcat

\* what a step of clean_directory leaves alone
TreeFrame == UNCHANGED <<chunk_vars, concat_vars, glob, urls, trunc, cache, analysis>>

\* the frame on top of the stack
Top == tree.stack[Len(tree.stack)]

\* the stack with its top frame replaced
WithTop(f) == [tree.stack EXCEPT ![Len(tree.stack)] = f]

\* the stack after the return of the top call; the caller of file_operations
\* is back from clean_directory(item)
Return ==
    LET rest == Take(tree.stack, Len(tree.stack) - 1)
    IN  IF rest = <<>> THEN rest
        ELSE [rest EXCEPT ![Len(rest)] =
                 IF tree.impl = FILE_OPERATIONS
                 THEN [rest[Len(rest)] EXCEPT !.back = TRUE]
                 ELSE [rest[Len(rest)] EXCEPT !.i = rest[Len(rest)].i + 1]]

\* path.rmdir(): the error it raises, if any
RmdirError(fs, path) ==
    IF path \notin fs THEN "FileNotFoundError"
    ELSE IF \E q \in fs : ParentOf(q) = path THEN "OSError"
    ELSE "none"

\* directory.exists() at the call from outside: a directory that does not
\* exist is left alone
TreeEnter ==
    /\ tree.pc = "enter"
    /\ IF TheDirectory \in tree.fs
       THEN tree' = [tree EXCEPT !.pc = "run",
                        !.stack = <<Frame(tree.fs, TheDirectory, tree.impl, tree.reverse)>>]
       ELSE tree' = [tree EXCEPT !.pc = "returned"]
    /\ TreeFrame

\* item.is_file(): item.unlink()
TreeUnlink ==
    /\ tree.pc = "run"
    /\ Top.loop \in {"files", "items"}
    /\ ~Top.back
    /\ Top.i <= Len(Top.items)
    /\ Top.items[Top.i] \in TreeFiles
    /\ tree' = [tree EXCEPT !.fs = tree.fs \ {Top.items[Top.i]},
                            !.stack = WithTop([Top EXCEPT !.i = Top.i + 1])]
    /\ TreeFrame

\* file_utils: the first loop passes over the directories, the second over
\* what is not a directory
TreeSkip ==
    /\ tree.pc = "run"
    /\ tree.impl = FILE_UTILS
    /\ Top.i <= Len(Top.items)
    /\ \/ Top.loop = "files" /\ Top.items[Top.i] \notin TreeFiles
       \/ Top.loop = "dirs" /\ Top.items[Top.i] \notin TreeDirs
    /\ tree' = [tree EXCEPT !.stack = WithTop([Top EXCEPT !.i = Top.i + 1])]
    /\ TreeFrame

\* file_utils: the second loop lists the directory again
TreeSecondLoop ==
    /\ tree.pc = "run"
    /\ Top.loop = "files"
    /\ Top.i > Len(Top.items)
    /\ tree' = [tree EXCEPT !.stack = WithTop([Top EXCEPT
                    !.loop = "dirs", !.i = 1,
                    !.items = Iterdir(tree.fs, Top.directory, tree.reverse)])]
    /\ TreeFrame

\* item.is_dir(): clean_directory(item)
TreeDescend ==
    /\ tree.pc = "run"
    /\ Top.loop \in {"dirs", "items"}
    /\ ~Top.back
    /\ Top.i <= Len(Top.items)
    /\ Top.items[Top.i] \in TreeDirs
    /\ tree' = [tree EXCEPT !.stack =
                    Append(tree.stack,
                           Frame(tree.fs, Top.items[Top.i], tree.impl, tree.reverse))]
    /\ TreeFrame

\* file_operations, line 138: item.rmdir() after clean_directory(item)
TreeRmdirItem ==
    /\ tree.pc = "run"
    /\ Top.back
    /\ LET item == Top.items[Top.i]
       IN  IF RmdirError(tree.fs, item) # "none"
           THEN tree' = [tree EXCEPT !.pc = "raised", !.error = RmdirError(tree.fs, item)]
           ELSE tree' = [tree EXCEPT !.fs = tree.fs \ {item},
                            !.stack = WithTop([Top EXCEPT !.i = Top.i + 1, !.back = FALSE])]
    /\ TreeFrame

\* directory.rmdir() at the end of a call, and its return
TreeRmdir ==
    /\ tree.pc = "run"
    /\ Top.loop \in {"dirs", "items"}
    /\ ~Top.back
    /\ Top.i > Len(Top.items)
    /\ IF RmdirError(tree.fs, Top.directory) # "none"
       THEN tree' = [tree EXCEPT !.pc = "raised",
                                 !.error = RmdirError(tree.fs, Top.directory)]
       ELSE tree' = [tree EXCEPT !.fs = tree.fs \ {Top.directory},
                                 !.stack = Return,
                                 !.pc = IF Len(tree.stack) = 1 THEN "returned" ELSE "run"]
    /\ TreeFrame

NextTree ==
    \/ TreeEnter
    \/ TreeUnlink
    \/ TreeSkip
    \/ TreeSecondLoop
    \/ TreeDescend
    \/ TreeRmdirItem
    \/ TreeRmdir

SpecTree == InitTree /\ [][NextTree]_vars

\* ------------------------------------------------------------- truncate_text_by_tokens
ELLIPSIS == <<".", ".", ".">>

\* the end of the word that starts at i: the next blank or ellipsis
RECURSIVE WordEnd(_, _)
WordEnd(s, i) ==
    IF i > Len(s) \/ IsSpace(s[i]) \/ StartsWith(Drop(s, i - 1), ELLIPSIS) THEN i
    ELSE WordEnd(s, i + 1)

\* word_tokenize(text) on words, blanks and ellipses: the words between the
\* blanks, an ellipsis being a token of its own
RECURSIVE word_tokenize(_)
word_tokenize(s) ==
    IF s = <<>> THEN <<>>
    ELSE IF IsSpace(s[1]) THEN word_tokenize(Tail(s))
    ELSE IF StartsWith(s, ELLIPSIS) THEN <<ELLIPSIS>> \o word_tokenize(Drop(s, 3))
    ELSE <<Take(s, WordEnd(s, 1) - 1)>> \o word_tokenize(Drop(s, WordEnd(s, 1) - 1))

\* count_tokens of spacy_utils
nltk_count_tokens(s) == Len(word_tokenize(s))

\* tokens[:n]
FirstTokens(tokens, n) == Take(tokens, n)

\* tokens[-n:]: the last n tokens, and all of them when n is 0
LastTokens(tokens, n) == IF n = 0 THEN tokens ELSE Drop(tokens, Len(tokens) - n)

\* the texts: words of a and b and blanks
Words == UNION {[1..n -> {"a", "b", SP}] : n \in 0..MaxText}

\* a call truncate_text_by_tokens(text, max_tokens), from outside or from
\* analyze_single_directory with its content
InitTrunc ==
    /\ \E text \in Words, max \in 0..MaxTokens, caller \in {"direct", "analyzer"} :
          trunc = [pc |-> IF caller = "direct" THEN "call" ELSE "count",
                   caller |-> caller, text |-> text, max_tokens |-> max,
                   content |-> text]
    /\ glob = Idle
    /\ urls = Idle
    /\ tree = Idle
    /\ cache = Idle
    /\ analysis = Idle
    /\ NoChunking
    /\ NoConcat

\* what a step of the truncation leaves alone
TruncFrame == UNCHANGED <<chunk_vars, concat_vars, glob, urls, tree, cache, analysis>>

\* analyzer.py 46-48: content within max_tokens goes to the model as it is
AnalyzeWithin ==
    /\ trunc.pc = "count"
    /\ nltk_count_tokens(trunc.content) <= trunc.max_tokens
    /\ trunc' = [trunc EXCEPT !.pc = "query"]
    /\ TruncFrame

\* analyzer.py 48-49: content over max_tokens is truncated
AnalyzeTruncate ==
    /\ trunc.pc = "count"
    /\ nltk_count_tokens(trunc.content) > trunc.max_tokens
    /\ trunc' = [trunc EXCEPT !.pc = "call"]
    /\ TruncFrame

\* where the call returns to
AfterCall == IF trunc.caller = "direct" THEN "returned" ELSE "query"

\* lines 98-101: a text within max_tokens is returned as it is
TruncWithin ==
    /\ trunc.pc = "call"
    /\ Len(word_tokenize(trunc.content)) <= trunc.max_tokens
    /\ trunc' = [trunc EXCEPT !.pc = AfterCall]
    /\ TruncFrame

\* lines 103-109: the first and the last max_tokens // 2 tokens around "... "
TruncCut ==
    /\ trunc.pc = "call"
    /\ LET tokens       == word_tokenize(trunc.content)
           half_tokens  == trunc.max_tokens \div 2
           start_tokens == FirstTokens(tokens, half_tokens)
           end_tokens   == LastTokens(tokens, half_tokens)
       IN  /\ Len(tokens) > trunc.max_tokens
           /\ trunc' = [trunc EXCEPT
                  !.content = JoinWith(start_tokens, <<SP>>) \o ELLIPSIS \o <<SP>>
                                  \o JoinWith(end_tokens, <<SP>>),
                  !.pc = AfterCall]
    /\ TruncFrame

NextTrunc ==
    \/ AnalyzeWithin
    \/ AnalyzeTruncate
    \/ TruncWithin
    \/ TruncCut

SpecTrunc == InitTrunc /\ [][NextTrunc]_vars

\* ------------------------------------------------------------- SchemaCache
\* max_size_mb * 1024 * 1024, the limit in bytes
MEGABYTE == 1024 * 1024
\* 24 * 60 * 60, the seconds of a day
DAY == 24 * 60 * 60
\* time.time() at the call
Now == 3 * DAY

\* the limit of the size cleanup, and the OFFSET of its DELETE (line 216)
SizeLimit(max_size_mb) == max_size_mb * MEGABYTE
Offset(max_size_mb) == (max_size_mb * MEGABYTE) \div 1000

\* SUM(size) of the rows
RECURSIVE SumSizes(_, _, _)
SumSizes(rows, lo, hi) ==
    IF lo > hi THEN 0
    ELSE IF lo = hi THEN rows[lo].size
    ELSE SumSizes(rows, lo, (lo + hi) \div 2) + SumSizes(rows, (lo + hi) \div 2 + 1, hi)
TotalSize(rows) == SumSizes(rows, 1, Len(rows))

\* row q comes before row r in ORDER BY timestamp ASC (rows of one
\* timestamp in the order of their rowid)
Before(rows, q, r) ==
    \/ rows[q].timestamp < rows[r].timestamp
    \/ rows[q].timestamp = rows[r].timestamp /\ q < r

\* SELECT rowid ... ORDER BY timestamp ASC LIMIT -1 OFFSET ?: the rows
\* after the first offset ones
Selected(rows, offset) ==
    {r \in 1..Len(rows) :
        Cardinality({q \in 1..Len(rows) : Before(rows, q, r)}) >= offset}

\* the rows without those of a set of positions
Without(rows, gone) == SelectSeq([r \in 1..Len(rows) |-> IF r \in gone THEN <<>> ELSE rows[r]],
                                 LAMBDA row : row # <<>>)

\* the small caches: rows 1..n by rowid, each with a key, a timestamp and a
\* size
Stamps == {Now - 2 * DAY, Now - DAY - 1, Now - DAY, Now - 1}
Sizes == {1000, 600000}
SmallCaches ==
    UNION {{[r \in 1..n |-> [key |-> r, timestamp |-> ts[r], size |-> sz[r]]] :
               ts \in [1..n -> Stamps], sz \in [1..n -> Sizes]} : n \in 0..MaxRows}

\* the large caches: more rows than the offset of one megabyte, of 1000
\* bytes each, the newest first or the oldest first
LargeCaches ==
    {[r \in 1..ManyRows |-> [key |-> r, size |-> 1000,
                             timestamp |-> IF newest_first THEN Now - r
                                           ELSE Now - ManyRows - 1 + r]] :
        newest_first \in BOOLEAN}

\* a call get(...) for the row of a key, on a cache with its limits
InitCache ==
    /\ \/ \E rows \in SmallCaches, mb \in {0, 1}, days \in {1, 2}, key \in 1..MaxRows :
             cache = [pc |-> "size", max_size_mb |-> mb, max_age_days |-> days,
                      before |-> rows, rows |-> rows, key |-> key, found |-> {}]
       \/ \E rows \in LargeCaches, key \in {1, ManyRows} :
             cache = [pc |-> "size", max_size_mb |-> 1, max_age_days |-> 1,
                      before |-> rows, rows |-> rows, key |-> key, found |-> {}]
    /\ glob = Idle
    /\ urls = Idle
    /\ tree = Idle
    /\ trunc = Idle
    /\ analysis = Idle
    /\ NoChunking
    /\ NoConcat

\* what a step of get leaves alone
CacheFrame == UNCHANGED <<chunk_vars, concat_vars, glob, urls, tree, trunc, analysis>>

\* lines 203-218: when the total size is over the limit, the rows the
\* subquery selects are deleted
CacheSizeCleanup ==
    /\ cache.pc = "size"
    /\ TotalSize(cache.rows) > SizeLimit(cache.max_size_mb)
    /\ cache' = [cache EXCEPT
           !.rows = Without(cache.rows, Selected(cache.rows, Offset(cache.max_size_mb))),
           !.pc = "age"]
    /\ CacheFrame

\* line 207: the total size is within the limit
CacheSizeWithin ==
    /\ cache.pc = "size"
    /\ TotalSize(cache.rows) <= SizeLimit(cache.max_size_mb)
    /\ cache' = [cache EXCEPT !.pc = "age"]
    /\ CacheFrame

\* lines 220-226: the rows older than max_age_days are deleted
CacheExpire ==
    /\ cache.pc = "age"
    /\ LET max_age == Now - cache.max_age_days * DAY
       IN  cache' = [cache EXCEPT
               !.rows = SelectSeq(cache.rows, LAMBDA row : ~(row.timestamp < max_age)),
               !.pc = "select"]
    /\ CacheFrame

\* lines 144-156: the row of the key, if there is one, is returned
CacheSelect ==
    /\ cache.pc = "select"
    /\ cache' = [cache EXCEPT
           !.found = {cache.rows[r] : r \in {q \in 1..Len(cache.rows) :
                                                cache.rows[q].key = cache.key}},
           !.pc = "returned"]
    /\ CacheFrame

NextCache ==
    \/ CacheSizeCleanup
    \/ CacheSizeWithin
    \/ CacheExpire
    \/ CacheSelect

SpecCache == InitCache /\ [][NextCache]_vars

\* ------------------------------------------------------------- analyze_directories
\* what process_directory returns for directory d: no files and no content
\* for a directory without files, its files and their concatenation otherwise
DirFiles(d, full) == IF full THEN <<d>> ELSE <<>>
DirContent(d, full) == IF full THEN <<"c", d>> ELSE <<>>
process_directory(d, full) == [files |-> DirFiles(d, full), content |-> DirContent(d, full)]

\* what query_model answers for a content, when it answers
Answer(text) == [kind |-> "answer", of |-> text]
None == [kind |-> "None"]
\* a query that has not completed
Pending == [kind |-> "pending"]

\* a call analyze_directories(directories, ...) without combined analysis;
\* full[d] tells whether directory d has files
InitAnalysis ==
    /\ \E n \in 1..MaxDirs : \E full \in [1..n -> BOOLEAN] :
          analysis = [pc |-> "process", full |-> full, results |-> <<>>,
                      analysis_tasks |-> <<>>, analyses |-> <<>>,
                      directory_results |-> <<>>]
    /\ glob = Idle
    /\ urls = Idle
    /\ tree = Idle
    /\ trunc = Idle
    /\ cache = Idle
    /\ NoChunking
    /\ NoConcat

\* what a step of analyze_directories leaves alone
AnalysisFrame == UNCHANGED <<chunk_vars, concat_vars, glob, urls, tree, trunc, cache>>

\* lines 112-113: the directories are processed, the results are in the
\* order of the directories
AnalysisProcess ==
    /\ analysis.pc = "process"
    /\ analysis' = [analysis EXCEPT
           !.results = [d \in 1..Len(analysis.full) |->
                           process_directory(d, analysis.full[d])],
           !.pc = "tasks"]
    /\ AnalysisFrame

\* lines 138-156: a query is made for every result with content, in order
AnalysisTasks ==
    /\ analysis.pc = "tasks"
    /\ LET with_content == SelectSeq(analysis.results, LAMBDA r : r.content # <<>>)
       IN  analysis' = [analysis EXCEPT
               !.analysis_tasks = [t \in 1..Len(with_content) |-> with_content[t].content],
               !.analyses = [t \in 1..Len(with_content) |-> Pending],
               !.pc = "gather"]
    /\ AnalysisFrame

\* line 159, asyncio.gather: the queries complete in any order, each with
\* an answer for its content or with None; the answers are kept in the order
\* of the tasks
AnalysisComplete ==
    /\ analysis.pc = "gather"
    /\ \E t \in 1..Len(analysis.analysis_tasks) :
          /\ analysis.analyses[t] = Pending
          /\ \E answer \in {Answer(analysis.analysis_tasks[t]), None} :
                analysis' = [analysis EXCEPT !.analyses[t] = answer]
    /\ AnalysisFrame

\* zip(results, analyses): the pairs up to the shorter of the two
Zipped(results, analyses) ==
    LET n == IF Len(results) < Len(analyses) THEN Len(results) ELSE Len(analyses)
    IN  [k \in 1..n |-> <<results[k], analyses[k]>>]

\* lines 160-170: the entries of the pairs whose result has content and
\* whose analysis is not None
AnalysisReturn ==
    /\ analysis.pc = "gather"
    /\ \A t \in 1..Len(analysis.analyses) : analysis.analyses[t] # Pending
    /\ LET pairs == SelectSeq(Zipped(analysis.results, analysis.analyses),
                              LAMBDA p : p[1].content # <<>> /\ p[2] # None)
       IN  analysis' = [analysis EXCEPT
               !.directory_results = [k \in 1..Len(pairs) |->
                                         [files |-> pairs[k][1].files,
                                          analysis |-> pairs[k][2]]],
               !.pc = "returned"]
    /\ AnalysisFrame

NextAnalysis ==
    \/ AnalysisProcess
    \/ AnalysisTasks
    \/ AnalysisComplete
    \/ AnalysisReturn

SpecAnalysis == InitAnalysis /\ [][NextAnalysis]_vars

\* ------------------------------------------------------------- two invocations
\* the locals of the invocation that is running (lines 217-219, 229-231,
\* 249-251 and 164-165) and its arguments
Locals ==
    [content_by_file |-> content_by_file, token_limit |-> token_limit, pc |-> pc,
     chunks |-> chunks, current_chunk |-> current_chunk,
     current_chunk_tokens |-> current_chunk_tokens, order |-> order, fi |-> fi,
     lines |-> lines, li |-> li, part_number |-> part_number,
     part_lines |-> part_lines, current_part_tokens |-> current_part_tokens,
     line |-> line, remaining |-> remaining, sl_part_number |-> sl_part_number,
     line_chunks |-> line_chunks]

\* the locals of an invocation that has not made a step yet
EnteredLocals(m, limit) ==
    [content_by_file |-> m, token_limit |-> limit, pc |-> "file",
     chunks |-> <<>>, current_chunk |-> <<>>, current_chunk_tokens |-> 0,
     order |-> KeyOrder(m), fi |-> 1, lines |-> <<>>, li |-> 0, part_number |-> 0,
     part_lines |-> <<>>, current_part_tokens |-> 0, line |-> <<>>,
     remaining |-> <<>>, sl_part_number |-> 0, line_chunks |-> <<>>]

\* a slip: the output list is one list shared by the invocations
ResumeSharedChunks(fr) ==
    /\ content_by_file' = fr.content_by_file
    /\ token_limit' = fr.token_limit
    /\ pc' = fr.pc
    /\ chunks' = chunks
    /\ current_chunk' = fr.current_chunk
    /\ current_chunk_tokens' = fr.current_chunk_tokens
    /\ order' = fr.order
    /\ fi' = fr.fi
    /\ lines' = fr.lines
    /\ li' = fr.li
    /\ part_number' = fr.part_number
    /\ part_lines' = fr.part_lines
    /\ current_part_tokens' = fr.current_part_tokens
    /\ line' = fr.line
    /\ remaining' = fr.remaining
    /\ sl_part_number' = fr.sl_part_number
    /\ line_chunks' = fr.line_chunks

\* the invocation with the locals fr runs on: each invocation has its own
\* chunks, current_chunk, part_number, ... (locals of its call)
Resume(fr) ==
    /\ content_by_file' = fr.content_by_file
    /\ token_limit' = fr.token_limit
    /\ pc' = fr.pc
    /\ chunks' = fr.chunks
    /\ current_chunk' = fr.current_chunk
    /\ current_chunk_tokens' = fr.current_chunk_tokens
    /\ order' = fr.order
    /\ fi' = fr.fi
    /\ lines' = fr.lines
    /\ li' = fr.li
    /\ part_number' = fr.part_number
    /\ part_lines' = fr.part_lines
    /\ current_part_tokens' = fr.current_part_tokens
    /\ line' = fr.line
    /\ remaining' = fr.remaining
    /\ sl_part_number' = fr.sl_part_number
    /\ line_chunks' = fr.line_chunks

\* the content maps of the first and of the second of two invocations
FirstMaps == {<<<<<<"b">>, t>>>> : t \in Texts(MaxFirstLen)}
SecondMaps == {<<<<<<"a", "b">>, t>>>> : t \in Texts(MaxSecondLen)}

\* the call that returned, with its result
Returned ==
    [content_by_file |-> content_by_file, token_limit |-> token_limit,
     result |-> chunks]

\* after the first call returned, the second call is made, alone
CallSecond ==
    /\ pc = "done"
    /\ returned = <<>>
    /\ content_by_file \in FirstMaps
    /\ returned' = <<Returned>>
    /\ \E m \in SecondMaps, limit \in 1..MaxBudget : Enter(m, limit)
    /\ UNCHANGED <<self, other>>

\* after both calls returned, the two calls are made again, from two call
\* sites that run concurrently
CallBoth ==
    /\ pc = "done"
    /\ Len(returned) = 1
    /\ other = <<>>
    /\ returned' = Append(returned, Returned)
    /\ Enter(returned[1].content_by_file, returned[1].token_limit)
    /\ self' = 1
    /\ other' = <<EnteredLocals(content_by_file, token_limit)>>

\* the scheduler suspends the running invocation and lets the other run
Switch ==
    /\ other # <<>>
    /\ Resume(other[1])
    /\ other' = <<Locals>>
    /\ self' = 3 - self
    /\ UNCHANGED <<returned, concat_vars, other_calls>>

NextConcurrent == Next \/ CallSecond \/ CallBoth \/ Switch

SpecConcurrent == Init /\ [][NextConcurrent]_vars

\* ------------------------------------------------------------- reading chunks
\* the first line of a chunk: its header
HeaderLine(c) == SplitLines(c)[1]

\* what follows the header line and its line break
Body(c) == Drop(c, Len(HeaderLine(c)) + 1)

\* the path the header names: the header line without "File: "
HeaderPath(c) == Drop(HeaderLine(c), 6)

\* the chunk is a numbered part: its path starts with a digit (no file name does)
IsPart(c) == HeaderPath(c) # <<>> /\ Class(HeaderPath(c)[1]) = "N"

\* the digits NNN of a numbered part and the file name after the underscore
PartPrefix(c) == Take(HeaderPath(c), RunEnd(HeaderPath(c), 1, {"N"}))
PartFile(c) == Drop(HeaderPath(c), RunEnd(HeaderPath(c), 1, {"N"}) + 1)

\* the elements of a set of integers in ascending order
RECURSIVE Ascending(_)
Ascending(S) ==
    IF S = {} THEN <<>>
    ELSE LET m == CHOOSE x \in S : \A y \in S : x <= y
         IN  <<m>> \o Ascending(S \ {m})

\* the sections of a chunk of whole files, in order: each starts at an "F"
\* (no content holds one) and all but the last end with the blank-line
\* separator, which is not part of the section
Sections(c) ==
    LET st == Ascending({i \in 1..Len(c) : c[i] = "F"})
    IN  [k \in 1..Len(st) |->
            IF k < Len(st) THEN SubSeq(c, st[k], st[k + 1] - 3)
            ELSE SubSeq(c, st[k], Len(c))]

\* the files a chunk carries
FilesOf(c) ==
    IF IsPart(c) THEN {PartFile(c)}
    ELSE {HeaderPath(Sections(c)[k]) : k \in 1..Len(Sections(c))}

\* the numbered parts of file f among the chunks cs, in output order
RECURSIVE PartsOf(_, _)
PartsOf(cs, f) ==
    IF cs = <<>> THEN <<>>
    ELSE (IF IsPart(cs[1]) /\ PartFile(cs[1]) = f THEN <<cs[1]>> ELSE <<>>)
         \o PartsOf(Tail(cs), f)

\* the whole-file sections of file f among the chunks cs, in output order
RECURSIVE WholeSectionsOf(_, _)
WholeSectionsOf(cs, f) ==
    IF cs = <<>> THEN <<>>
    ELSE (IF IsPart(cs[1]) THEN <<>>
          ELSE SelectSeq(Sections(cs[1]), LAMBDA x : HeaderPath(x) = f))
         \o WholeSectionsOf(Tail(cs), f)

\* the bodies of the sections and parts of file f among the chunks cs, in
\* output order
RECURSIVE BodiesOf(_, _)
BodiesOf(cs, f) ==
    IF cs = <<>> THEN <<>>
    ELSE LET c    == cs[1]
             mine == IF IsPart(c)
                     THEN (IF PartFile(c) = f THEN <<Body(c)>> ELSE <<>>)
                     ELSE LET own == SelectSeq(Sections(c), LAMBDA x : HeaderPath(x) = f)
                          IN  [k \in 1..Len(own) |-> Body(own[k])]
         IN  mine \o BodiesOf(Tail(cs), f)

\* the strings of bs one after the other
RECURSIVE Flatten(_)
Flatten(bs) == IF bs = <<>> THEN <<>> ELSE bs[1] \o Flatten(Tail(bs))

\* the strings of bs joined, seam k by seps[k]
RECURSIVE JoinSeams(_, _)
JoinSeams(bs, seps) ==
    IF bs = <<>> THEN <<>>
    ELSE IF Len(bs) = 1 THEN bs[1]
    ELSE bs[1] \o seps[1] \o JoinSeams(Tail(bs), Tail(seps))

\* bs give back text when each seam is closed by nothing or by one line break
RebuildsWithSeams(bs, text) ==
    \E seps \in [1..(IF Len(bs) > 0 THEN Len(bs) - 1 ELSE 0) -> {<<>>, <<NL>>}] :
        JoinSeams(bs, seps) = text

WithoutBreaks(text) == SelectSeq(text, LAMBDA c : c # NL)

\* the whole-file section of f is the last section of its chunk
LastOfItsChunk(cs, f) ==
    \E i \in 1..Len(cs) :
        /\ ~IsPart(cs[i])
        /\ HeaderPath(Sections(cs[i])[Len(Sections(cs[i]))]) = f

\* ------------------------------------------------------------- claims
\* C1: every chunk of the output has at most token_limit tokens, header
\* included, unless its body is a one-character fragment of a line.
C1_BudgetRespected ==
    \A i \in 1..Len(chunks) :
        \/ count_tokens(chunks[i]) <= token_limit
        \/ IsPart(chunks[i]) /\ Len(Body(chunks[i])) = 1

\* C2: no chunk that carries a file g comes before a chunk that carries a
\* file f < g.
C2_FileOrder ==
    \A i, j \in 1..Len(chunks) :
        i < j => \A g \in FilesOf(chunks[i]), f \in FilesOf(chunks[j]) : ~StrLess(f, g)

Pairs(m) == {m[i] : i \in 1..Len(m)}

\* C4: a call that follows another call with the same budget and the same
\* pairs, inserted in any order, returns the chunk sequence the earlier call
\* returned.
C4_Deterministic ==
    (pc = "done" /\ returned # <<>>) =>
        ((/\ Pairs(returned[1].content_by_file) = Pairs(content_by_file)
          /\ returned[1].token_limit = token_limit)
            => chunks = returned[1].result)

\* C4, its case: the second call had the pairs in another insertion order
\* and returned several chunks
C4_Witness ==
    /\ pc = "done"
    /\ returned # <<>>
    /\ returned[1].content_by_file # content_by_file
    /\ Pairs(returned[1].content_by_file) = Pairs(content_by_file)
    /\ Len(chunks) >= 2

\* the value of a string of decimal digits
RECURSIVE DecimalValue(_)
DecimalValue(ds) ==
    IF ds = <<>> THEN 0
    ELSE 10 * DecimalValue(SubSeq(ds, 1, Len(ds) - 1)) + (Ord(ds[Len(ds)]) - 48)

\* C5: every chunk, emitted or made by split_long_line, is non-empty and its
\* first line is "File: <name>" or "File: <NNN>_<name>" for a key <name> of
\* the content map, also when the budget is smaller than a header.
C5_HeaderFirst ==
    \A c \in {chunks[i] : i \in 1..Len(chunks)}
             \cup {line_chunks[i] : i \in 1..Len(line_chunks)} :
        /\ c # <<>>
        /\ Take(c, 6) = <<"F", "i", "l", "e", ":", SP>>
        /\ \E name \in Keys(content_by_file) :
              \/ HeaderPath(c) = name
              \/ /\ IsPart(c)
                 /\ DecimalValue(PartPrefix(c)) >= 1
                 /\ Drop(HeaderPath(c), Len(PartPrefix(c))) = <<"_">> \o name

\* C5, its case: a budget smaller than the header of the file, and chunks
\* were returned
C5_Witness ==
    /\ pc = "done"
    /\ chunks # <<>>
    /\ token_limit < count_tokens(format_file_section(order[1], <<>>))

\* C7: a file whose content is empty is in the output exactly once, as a
\* section with an empty body.
C7_EmptyFileKept ==
    pc = "done" =>
        \A f \in Keys(content_by_file) :
            GetContent(content_by_file, f) = <<>> => BodiesOf(chunks, f) = <<<<>>>>

\* the whole-file sections of all files, in sorted order, joined by blank lines
RECURSIVE JoinedSections(_, _)
JoinedSections(m, names) ==
    IF names = <<>> THEN <<>>
    ELSE IF Len(names) = 1 THEN format_file_section(names[1], GetContent(m, names[1]))
    ELSE format_file_section(names[1], GetContent(m, names[1]))
         \o <<NL, NL>> \o JoinedSections(m, Tail(names))

\* every file of the map is handled in whole-file mode
AllWholeFiles ==
    \A f \in Keys(content_by_file) :
        /\ ~HasLongLines(SplitLines(GetContent(content_by_file, f)), f, token_limit)
        /\ count_tokens(format_file_section(f, GetContent(content_by_file, f)))
               <= token_limit

\* C8: a file handled in whole-file mode joins the accumulator, after a blank
\* line, exactly when the joined text has at most token_limit tokens;
\* otherwise the accumulator is emitted (trimmed) and the file opens a new
\* one.  When all files are whole files and fit the budget joined, the
\* output is one chunk.
C8_WholeFilePacking ==
    /\ [][pc = "whole" =>
            LET section == format_file_section(filename, content)
                joined  == current_chunk \o <<NL, NL>> \o section
            IN  IF current_chunk # <<>> /\ count_tokens(joined) <= token_limit
                THEN current_chunk' = joined /\ chunks' = chunks
                ELSE /\ current_chunk' = section
                     /\ chunks' = IF current_chunk = <<>> THEN chunks
                                  ELSE Append(chunks, Strip(current_chunk))]_vars
    /\ []((/\ pc = "done"
           /\ AllWholeFiles
           /\ count_tokens(JoinedSections(content_by_file, order)) <= token_limit)
             => Len(chunks) = 1)

\* C8, its case: two whole files were packed into the one chunk returned
C8_Witness ==
    /\ pc = "done"
    /\ Len(order) = 2
    /\ Len(chunks) = 1
    /\ Len(Sections(chunks[1])) = 2

\* the token count of some prefix of text exceeds that of a longer prefix
NonMonotonic(text) ==
    \E i, j \in 0..Len(text) :
        i < j /\ count_tokens(Take(text, i)) > count_tokens(Take(text, j))

\* the steps a line of n characters can still take: its split, a fragment
\* per character, and the return
LineWork(n) == n + 3

RECURSIVE WorkOfLines(_, _)
WorkOfLines(ls, from) ==
    IF from > Len(ls) THEN 0 ELSE LineWork(Len(ls[from])) + WorkOfLines(ls, from + 1)

\* more than the steps any one file can take
FileWork ==
    LET total == Len(Flatten([i \in 1..Len(content_by_file) |-> content_by_file[i][2]]))
    IN  4 * (total + 2)

\* a bound on the steps the call can still take
Measure ==
    IF pc = "done" THEN 0
    ELSE IF pc = "file" THEN (Len(order) - fi + 1) * FileWork + 1
    ELSE (Len(order) - fi) * FileWork + 1
         + (IF pc = "whole" THEN 1
            ELSE IF pc = "split"
            THEN 2 + Len(remaining) + WorkOfLines(lines, li + 1)
            ELSE 1 + WorkOfLines(lines, li))

\* the guard of some action holds
StepEnabled ==
    \/ pc = "file"
    \/ pc = "whole" /\ fi <= Len(order)
    \/ pc \in {"long", "fallback"} /\ fi <= Len(order) /\ li >= 1
    \/ pc = "split" /\ fi <= Len(order) /\ li \in 1..Len(lines)

\* C9: the call returns: every step lowers a bound on the steps left and a
\* step is possible until the call is done; in particular every fragment
\* split_long_line makes shortens the remainder by at least one character.
C9_Terminates ==
    /\ [][Measure' < Measure /\ Measure' >= 0]_vars
    /\ [](pc # "done" => StepEnabled)
    /\ [][(pc = "split" /\ remaining # <<>>) =>
            /\ Len(remaining') < Len(remaining)
            /\ Len(line_chunks') = Len(line_chunks) + 1]_vars

\* C9, its case: a line whose token counts are not monotonic in the prefix
\* length was split into several fragments
C9_Witness ==
    /\ pc = "split"
    /\ remaining = <<>>
    /\ Len(line_chunks) >= 2
    /\ NonMonotonic(line)

\* C10: a call with a file of non-empty content returns at least one chunk.
C10_NonEmptyOutput ==
    (/\ pc = "done"
     /\ \E f \in Keys(content_by_file) : GetContent(content_by_file, f) # <<>>)
        => chunks # <<>>

\* chunk i is a part of the file of the part before it
FollowsPart(cs, i) ==
    /\ i > 1
    /\ IsPart(cs[i - 1])
    /\ PartFile(cs[i - 1]) = PartFile(cs[i])

\* the parts of the file of part i that come before it
EarlierParts(cs, i) ==
    Cardinality({j \in 1..(i - 1) : IsPart(cs[j]) /\ PartFile(cs[j]) = PartFile(cs[i])})

\* part i carries the number of its place among the parts of its file: one
\* more than the part right before it, or than the count of the earlier parts
InPlace(cs, i) ==
    IF FollowsPart(cs, i)
    THEN DecimalValue(PartPrefix(cs[i])) = DecimalValue(PartPrefix(cs[i - 1])) + 1
    ELSE DecimalValue(PartPrefix(cs[i])) = EarlierParts(cs, i) + 1

available_tokens == token_limit - PartHeaderTokens(sl_part_number, filename)

\* the fragment split_long_line appended last
LastFragment(lcs) == Body(lcs[Len(lcs)])

\* C11: when not even one character of the line fits under the header of the
\* part, the fragment split_long_line emits is one character of the line.
C11_ForcedMinimal ==
    [][(/\ pc = "split"
        /\ remaining # <<>>
        /\ count_tokens(Take(remaining, 1)) > available_tokens)
          => Len(LastFragment(line_chunks')) = 1]_vars

\* C12: every emitted chunk is trimmed: it is not empty and neither starts
\* nor ends with whitespace.
C12_Trimmed ==
    \A i \in 1..Len(chunks) :
        /\ chunks[i] # <<>>
        /\ ~IsSpace(chunks[i][1])
        /\ ~IsSpace(chunks[i][Len(chunks[i])])

\* some line of ls does not fit under the header of a numbered part of name
OversizedUnderPartHeader(ls, name, limit) ==
    \E i \in 1..Len(ls) : count_tokens(ls[i]) > limit - PartHeaderTokens(1, name)

\* C13: a file is processed line-split exactly when one of its lines has more
\* tokens than the budget less the header of a numbered part; so no line of
\* a file in whole-file fallback exceeds the budget as a part.
C13_ModeChoice ==
    /\ [][(pc = "file" /\ fi <= Len(order)) =>
            (pc' = "long" <=>
                OversizedUnderPartHeader(SplitLines(content), filename, token_limit))]_vars
    /\ [](pc = "fallback" =>
            ~OversizedUnderPartHeader(lines, filename, token_limit))

\* C14: when the token counts of the prefixes of the remaining text never
\* decrease and its first character fits under the header of the part, the
\* fragment split_long_line cuts is the longest prefix of the remaining text
\* that fits, it carries the current part number, the remainder is what
\* follows it, and the part number advances by one; the caller's part number
\* advances by the number of fragments.
C14_LongestPrefix ==
    /\ [][(/\ pc = "split"
           /\ remaining # <<>>
           /\ ~NonMonotonic(remaining)
           /\ count_tokens(Take(remaining, 1)) <= available_tokens)
             => LET chunk == line_chunks'[Len(line_chunks')]
                    frag  == Body(chunk)
                IN  /\ chunk = format_file_section(PartName(sl_part_number, filename), frag)
                    /\ frag = Take(remaining, Len(frag))
                    /\ count_tokens(frag) <= available_tokens
                    /\ \A n \in (Len(frag) + 1)..Len(remaining) :
                          count_tokens(Take(remaining, n)) > available_tokens
                    /\ remaining' = Drop(remaining, Len(frag))
                    /\ sl_part_number' = sl_part_number + 1]_vars
    /\ [][(pc = "split" /\ remaining = <<>>)
             => part_number' = part_number + Len(line_chunks)]_vars

\* C14, its case: a line whose token counts never decrease along its
\* prefixes was cut into several fragments, the first of several characters
C14_Witness ==
    /\ pc = "split"
    /\ remaining = <<>>
    /\ ~NonMonotonic(line)
    /\ Len(line_chunks) >= 2
    /\ Len(Body(line_chunks[1])) >= 2
    /\ token_limit - PartHeaderTokens(1, filename) >= 1

\* chunk c is one numbered part of one file of the map
OnePart(c) ==
    /\ IsPart(c)
    /\ Len(Sections(c)) = 1
    /\ PartFile(c) \in Keys(content_by_file)

\* chunk c is a group of whole-file sections of files of the map, in sorted
\* order, each with the content of its file (up to the trimming of its end)
WholeGroup(c) ==
    LET ss == Sections(c)
    IN  /\ Len(ss) >= 1
        /\ \A k \in 1..Len(ss) :
              /\ HeaderPath(ss[k]) \in Keys(content_by_file)
              /\ RStrip(Body(ss[k]))
                    = RStrip(GetContent(content_by_file, HeaderPath(ss[k])))
        /\ \A k \in 1..(Len(ss) - 1) : StrLess(HeaderPath(ss[k]), HeaderPath(ss[k + 1]))

\* C15: every chunk is a group of whole-file sections or one numbered part,
\* and every file is emitted as exactly one whole-file section or as one or
\* more numbered parts, not both.
C15_SectionsOrParts ==
    pc = "done" =>
        /\ \A i \in 1..Len(chunks) : OnePart(chunks[i]) \/ WholeGroup(chunks[i])
        /\ \A f \in Keys(content_by_file) :
              LET w == Len(WholeSectionsOf(chunks, f))
                  p == Len(PartsOf(chunks, f))
              IN  (w = 1 /\ p = 0) \/ (w = 0 /\ p >= 1)

\* C15 without the emission of every file: no chunk mixes sections and
\* parts, and no file is emitted twice as a section or both ways.
C15_NeverMixed ==
    pc = "done" =>
        /\ \A i \in 1..Len(chunks) : OnePart(chunks[i]) \/ WholeGroup(chunks[i])
        /\ \A f \in Keys(content_by_file) :
              LET w == Len(WholeSectionsOf(chunks, f))
                  p == Len(PartsOf(chunks, f))
              IN  w <= 1 /\ (w = 0 \/ p = 0)

\* the chunks of invocation i of the two concurrent ones, once it returned
ResultOf(i) == IF self = i THEN chunks ELSE other[1].chunks

\* both concurrent invocations returned
BothReturned == other # <<>> /\ pc = "done" /\ other[1].pc = "done"

\* C16: of two invocations whose steps are interleaved in any order, each
\* returns the chunks it returns when it runs alone.
C16_Isolated ==
    BothReturned =>
        /\ ResultOf(1) = returned[1].result
        /\ ResultOf(2) = returned[2].result

\* C16, its case: both invocations are under way at once, one in the line
\* loop of the fallback with a part emitted, the other suspended inside
\* split_long_line with a fragment made
C16_Witness ==
    /\ other # <<>>
    /\ pc = "fallback"
    /\ chunks # <<>>
    /\ other[1].pc = "split"
    /\ other[1].line_chunks # <<>>

\* file f of the list is added to the artifact: not skipped as binary, under
\* the base path, and readable as text
IsAdded(f) == ~f.binary /\ IsUnder(f.path, base_path) /\ f.decodable

\* the first six lines of text are the metadata block of a call with the
\* files fs: the heading and the five keys in order, with their values
StartsWithMetadata(text, fs) ==
    LET ls == SplitLines(text)
    IN  /\ Len(ls) >= 6
        /\ ls[1] = HEADING
        /\ ls[2] = KEY_TOTAL_TOKENS \o <<":", SP, "0">>
        /\ ls[3] = KEY_FILE_COUNT \o <<":", SP>> \o Decimal(Len(fs))
        /\ ls[4] = KEY_REPOSITORY \o <<":", SP>> \o repository_url
        /\ ls[5] = KEY_TARGET_DIRECTORY \o <<":", SP>> \o target_dir
        /\ \E now \in Timestamps : ls[6] = KEY_GENERATED \o <<":", SP>> \o now

\* C17: the artifact of a non-empty file list starts with "# Metadata" and
\* exactly five "key: value" lines, total_tokens: 0, file_count, repository
\* and target_directory with the caller's values, and generated; what
\* follows, if anything, is a blank line.
C17_MetadataBlock ==
    (cf_pc = "returned" /\ files # <<>>) =>
        /\ StartsWithMetadata(artifact, files)
        /\ Len(SplitLines(artifact)) > 6 => SplitLines(artifact)[7] = <<>>

\* C17, its case: a list of several files, one of them added after the block
C17_Witness ==
    /\ cf_pc = "returned"
    /\ Len(files) >= 2
    /\ \E i \in 1..Len(files) : IsAdded(files[i])
    /\ repository_url # <<"u">>
    /\ target_dir # <<>>

RECURSIVE FileSections(_)
FileSections(fs) ==
    IF fs = <<>> THEN <<>>
    ELSE (IF IsAdded(fs[1])
          THEN << <<>>,
                  <<"F", "i", "l", "e", ":", SP>> \o RelativeTo(fs[1].path, base_path),
                  fs[1].content >>
          ELSE <<>>)
         \o FileSections(Tail(fs))

Holds(text, s) ==
    \E k \in 0..(Len(text) - Len(s)) : SubSeq(text, k + 1, k + Len(s)) = s

\* C20: the step on a file whose reading fails with a decoding error raises
\* nothing, leaves result as it is and goes on to the next file; and the
\* artifact returned holds every file added after such a file.
C20_DecodeErrorSkipped ==
    /\ [][(/\ cf_pc = "loop"
           /\ cf_i <= Len(files)
           /\ ~files[cf_i].binary
           /\ IsUnder(files[cf_i].path, base_path)
           /\ ~files[cf_i].decodable)
             => /\ result' = result
                /\ cf_pc' = "loop"
                /\ cf_i' = cf_i + 1]_vars
    /\ [](cf_pc = "returned" =>
            \A i, j \in 1..Len(files) :
                (/\ i < j
                 /\ ~files[i].binary
                 /\ ~files[i].decodable
                 /\ IsAdded(files[j]))
                    => Holds(artifact,
                             <<NL, NL, "F", "i", "l", "e", ":", SP>>
                                 \o RelativeTo(files[j].path, base_path)
                                 \o <<NL>> \o files[j].content))

\* C20, its case: a file that does not decode was skipped and a later file
\* was added
C20_Witness ==
    /\ cf_pc = "returned"
    /\ \E i, j \in 1..Len(files) :
          /\ i < j
          /\ ~files[i].binary
          /\ ~files[i].decodable
          /\ IsUnder(files[i].path, base_path)
          /\ IsAdded(files[j])

\* the file has a null byte in the bytes is_binary_file reads, or cannot be
\* opened
NullOrUnreadable(f) == ~f.readable \/ \E k \in f.nulls : k < ReadSize

\* C21: a file with a null byte in its first 1024 bytes, and a file that
\* cannot be read, is binary for is_binary_file whatever its extension; it is
\* never in the list glob_files builds, and never a "File:" entry of the
\* result or of the artifact of concatenate_files.
C21_BinaryExcluded ==
    /\ glob.pc # "idle" =>
          \A p \in DOMAIN glob.disk :
              NullOrUnreadable(glob.disk[p]) =>
                  /\ is_binary_file(p, glob.disk)
                  /\ \A k \in 1..Len(glob.files) : glob.files[k] # p
    /\ cf_pc # "idle" =>
          \A k \in 1..Len(files) :
              NullOrUnreadable(files[k]) =>
                  /\ files[k].binary
                  /\ IsUnder(files[k].path, base_path) =>
                        LET header == <<"F", "i", "l", "e", ":", SP>>
                                          \o RelativeTo(files[k].path, base_path)
                        IN  /\ \A j \in 1..Len(result) : result[j] # header
                            /\ ~Holds(artifact, header)

\* C21, its case: the walk is over; it met a file with a text extension that
\* cannot be opened and one with a null byte at the last offset read, both
\* under the target and matching no ignore pattern, and returned another file
C21_Witness ==
    /\ glob.pc = "returned"
    /\ glob.files # <<>>
    /\ \E p, q \in DOMAIN glob.disk :
          /\ ~glob.disk[p].readable
          /\ glob.disk[q].nulls = {ReadSize - 1}
          /\ \A f \in {p, q} :
                /\ IsTextType(GuessType(Name(f)))
                /\ Below(f, glob.target_path)
                /\ ~Ignored(f, glob.ignore_patterns)

\* the regular files below the target subdirectory of the base path that
\* match no ignore pattern and are not binary
Wanted ==
    {p \in DOMAIN glob.disk :
        /\ Below(p, glob.base_path \o PathParts(glob.target_dir))
        /\ ~Ignored(p, glob.ignore_patterns)
        /\ ~is_binary_file(p, glob.disk)}

\* C22: the list glob_files returns holds exactly the regular files below the
\* target subdirectory of the base path that match no ignore pattern and are
\* not binary: no directory, no ignored file, no file outside the target, and
\* no wanted file is missing.
C22_ExactlyTheWanted ==
    glob.pc = "returned" =>
        /\ {glob.files[k] : k \in 1..Len(glob.files)} = Wanted
        /\ \A k \in 1..Len(glob.files) :
              /\ glob.files[k] \notin Dirs
              /\ glob.files[k] \in DOMAIN glob.disk
              /\ Below(glob.files[k], glob.base_path \o PathParts(glob.target_dir))
              /\ ~Ignored(glob.files[k], glob.ignore_patterns)

\* C22, its case: the walk of a target with a subdirectory returned a file of
\* the subdirectory and left out an ignored file and a binary one, while a
\* file outside the target is on the disk
C22_Witness ==
    /\ glob.pc = "returned"
    /\ \E k \in 1..Len(glob.files) : Len(glob.files[k]) = 4
    /\ \E p \in DOMAIN glob.disk :
          /\ Below(p, glob.target_path)
          /\ Ignored(p, glob.ignore_patterns)
    /\ \E p \in DOMAIN glob.disk :
          /\ Below(p, glob.target_path)
          /\ ~Ignored(p, glob.ignore_patterns)
          /\ is_binary_file(p, glob.disk)
    /\ glob.ignore_patterns # <<>>

\* C23: glob_files on a target directory that does not exist raises and
\* returns no list, unless allow_missing is set, and then it returns the
\* empty list; on a target that exists the flag changes nothing: the call
\* returns the list of C22 either way.
C23_MissingTarget ==
    LET missing == ~Exists(glob.base_path \o PathParts(glob.target_dir), glob.disk)
    IN  /\ (glob.pc \in {"loop", "returned", "raised"} /\ missing) =>
              /\ glob.pc = (IF glob.allow_missing THEN "returned" ELSE "raised")
              /\ glob.files = <<>>
        /\ (glob.pc \in {"loop", "returned", "raised"} /\ ~missing) =>
              /\ glob.pc # "raised"
              /\ glob.walk = Walk(glob.base_path \o PathParts(glob.target_dir),
                                  glob.disk, glob.reverse)
              /\ glob.pc = "returned" =>
                    glob.files = SelectSeq(glob.walk, LAMBDA p : p \in Wanted)

\* C23, its case: the target is missing, the flag is not set and the call
\* has raised, with files on the disk
C23_Witness ==
    /\ glob.pc = "raised"
    /\ ~glob.allow_missing
    /\ glob.target_dir = <<"/", "m">>
    /\ DOMAIN glob.disk # {}

\* C24 as claimed: a call of parse_multi_urls either raises ValueError or
\* returns one target directory per entry of a list whose entries, the @
\* stripped, are all GitHub tree URLs of one repository and one branch or
\* all local paths; it raises no other error.
C24_OnlyValueError ==
    /\ urls.pc = "raised" => urls.error = "ValueError"
    /\ urls.pc = "returned" =>
          /\ Len(urls.target_dirs) = Len(urls.urls)
          /\ LET cleaned == [k \in 1..Len(urls.urls) |-> Cleaned(urls.urls[k])]
             IN  \/ \A k \in 1..Len(cleaned) : ~StartsWith(cleaned[k], GITHUB)
                 \/ \A k \in 1..Len(cleaned) :
                       /\ StartsWith(cleaned[k], GITHUB)
                       /\ Len(SplitStr(cleaned[k], TREE)) = 2
                       /\ SplitStr(cleaned[k], TREE)[1] = SplitStr(cleaned[1], TREE)[1]
                       /\ SplitOnce(SplitStr(cleaned[k], TREE)[2])[1]
                              = SplitOnce(SplitStr(cleaned[1], TREE)[2])[1]

\* C25 as claimed: clean_directory of either implementation ends without an
\* error; if the directory existed, it and everything beneath it are gone and
\* everything else, its parent included, is as before; if it did not exist,
\* nothing has changed.
C25_TreeRemoved ==
    /\ tree.pc # "raised"
    /\ tree.pc = "returned" =>
          tree.fs = {q \in tree.before : ~StartsWith(q, TheDirectory)}
    /\ (tree.pc # "idle" /\ TheDirectory \notin tree.before) => tree.fs = tree.before

\* C25 for file_utils: its clean_directory ends without an error on every
\* tree and removes the directory and everything beneath it, nothing else.
C25_FileUtilsRemoves ==
    (tree.pc # "idle" /\ tree.impl = FILE_UTILS) => C25_TreeRemoved

\* C26 as claimed: the text truncate_text_by_tokens returns, and so the
\* content analyze_single_directory passes to the model, has at most
\* max_tokens tokens; a text already within max_tokens is returned unchanged.
C26_WithinMaxTokens ==
    trunc.pc \in {"returned", "query"} =>
        /\ nltk_count_tokens(trunc.content) <= trunc.max_tokens
        /\ nltk_count_tokens(trunc.text) <= trunc.max_tokens =>
              trunc.content = trunc.text

\* C26, what holds: a text within max_tokens is returned unchanged, and a
\* longer text comes back with at most max_tokens + 1 tokens when max_tokens
\* is 2 or more.
C26_UnchangedOrOneOver ==
    trunc.pc \in {"returned", "query"} =>
        /\ nltk_count_tokens(trunc.text) <= trunc.max_tokens =>
              trunc.content = trunc.text
        /\ trunc.max_tokens >= 2 =>
              nltk_count_tokens(trunc.content) <= trunc.max_tokens + 1
        /\ (trunc.max_tokens >= 2 /\ trunc.max_tokens % 2 = 1) =>
              nltk_count_tokens(trunc.content) <= trunc.max_tokens

\* the rows of the cache as a set
RowSet(rows) == {rows[r] : r \in 1..Len(rows)}

\* a row older than max_age_days
Expired(row) == row.timestamp < Now - cache.max_age_days * DAY

\* C27 as claimed: after the cleanup of a cache whose total size was over
\* the limit, no row is gone while an older one is kept and the total size is
\* at or under the limit; after every cleanup no row older than max_age_days
\* is left, and get returns none.
C27_OldestFirst ==
    cache.pc \in {"select", "returned"} =>
        /\ TotalSize(cache.before) > SizeLimit(cache.max_size_mb) =>
              /\ \A gone \in RowSet(cache.before) \ RowSet(cache.rows) :
                    \A kept \in RowSet(cache.rows) : ~(kept.timestamp < gone.timestamp)
              /\ TotalSize(cache.rows) <= SizeLimit(cache.max_size_mb)
        /\ \A row \in RowSet(cache.rows) \cup cache.found : ~Expired(row)

\* C27, what holds: after every cleanup no row older than max_age_days is
\* left and get returns none; and the rows kept by the size cleanup are the
\* unexpired ones among the first Offset rows by timestamp.
C27_ExpiredRemoved ==
    cache.pc \in {"select", "returned"} =>
        /\ \A row \in RowSet(cache.rows) \cup cache.found : ~Expired(row)
        /\ cache.found \subseteq RowSet(cache.before)
        /\ TotalSize(cache.before) > SizeLimit(cache.max_size_mb) =>
              LET gone == Selected(cache.before, Offset(cache.max_size_mb))
              IN  cache.rows = SelectSeq(Without(cache.before, gone),
                                         LAMBDA row : ~Expired(row))

\* the bodies bs are the lines of text in order: closed by a line break at a
\* seam between two parts of whole lines, and by nothing at a seam between
\* two fragments of one line, which hold no line break and are not empty
LinesAndFragments(bs, text) ==
    \E seps \in [1..(IF Len(bs) > 0 THEN Len(bs) - 1 ELSE 0) -> {<<>>, <<NL>>}] :
        /\ JoinSeams(bs, seps) = text
        /\ \A k \in 1..(Len(bs) - 1) :
              seps[k] = <<>> =>
                  \A b \in {bs[k], bs[k + 1]} :
                      b # <<>> /\ \A i \in 1..Len(b) : b[i] # NL

\* C28: for a file emitted as numbered parts under a budget of at least the
\* tokens of a part header, every line is one line of exactly one part or is
\* cut into fragments carried by consecutive parts that concatenate to the
\* line, in the original order, none dropped or repeated; and the lines
\* accumulated before an oversized line are emitted as a part, before any
\* fragment of that line.
C28_LinesWholeOrCut ==
    /\ [](pc = "done" =>
            \A f \in Keys(content_by_file) :
                LET parts == PartsOf(chunks, f)
                IN  (parts # <<>> /\ token_limit >= PartHeaderTokens(1, f)) =>
                        LinesAndFragments([k \in 1..Len(parts) |-> Body(parts[k])],
                                          GetContent(content_by_file, f)))
    /\ [][(/\ pc = "long"
           /\ li <= Len(lines)
           /\ token_limit >= PartHeaderTokens(part_number, filename)
           /\ count_tokens(lines[li])
                  > token_limit - PartHeaderTokens(part_number, filename)
           /\ part_lines # <<>>)
             => /\ Len(chunks') > Len(chunks)
                /\ IsPart(chunks'[Len(chunks')])
                /\ PartFile(chunks'[Len(chunks')]) = filename
                /\ Body(chunks'[Len(chunks')]) = JoinWith(part_lines, <<NL>>)
                /\ line_chunks' = <<>>
                /\ part_lines' = <<>>]_vars

\* C28, its case: under a budget that leaves room for two tokens after the
\* header, a file came out as a part of two whole lines, then the fragments
\* of a line cut in three or more, of two characters or more, then a part
\* with the last line
C28_Witness ==
    /\ pc = "done"
    /\ token_limit >= PartHeaderTokens(1, <<"b">>) + 2
    /\ LET parts == PartsOf(chunks, <<"b">>)
           ls    == SplitLines(GetContent(content_by_file, <<"b">>))
       IN  /\ Len(parts) >= 5
           /\ Len(ls) = 4
           /\ Body(parts[1]) = ls[1] \o <<NL>> \o ls[2]
           /\ Len(Body(parts[2])) >= 2
           /\ Body(parts[2]) \o Body(parts[3]) # ls[3]
           /\ Body(parts[Len(parts)]) = ls[4]

\* the file_count value written in the metadata block of text
FileCountOf(text) ==
    DecimalValue(Drop(SplitLines(text)[3], Len(KEY_FILE_COUNT) + 2))

\* the number of lines of text that are "File:" headers (no content of a
\* file holds one)
FileHeadersOf(text) ==
    Cardinality({k \in 1..Len(SplitLines(text)) :
                    StartsWith(SplitLines(text)[k], <<"F", "i", "l", "e", ":", SP>>)})

\* C29 as claimed: the file_count of the metadata block of a returned
\* artifact is the number of "File:" sections that follow, also when files
\* are skipped as binary or undecodable.
C29_FileCountMatches ==
    (cf_pc = "returned" /\ files # <<>>) =>
        FileCountOf(artifact) = FileHeadersOf(artifact)

\* C29, what holds: file_count is the length of the list given, and the
\* "File:" sections are those of the files that were not skipped; the two
\* agree when no file is skipped.
C29_FileCountIsListLength ==
    (cf_pc = "returned" /\ files # <<>>) =>
        /\ FileCountOf(artifact) = Len(files)
        /\ FileHeadersOf(artifact)
              = Cardinality({k \in 1..Len(files) : IsAdded(files[k])})

\* every directory with content has exactly one entry, which pairs its files
\* with the analysis of its content
OwnEntries ==
    \A d \in 1..Len(analysis.full) :
        analysis.full[d] =>
            /\ Cardinality({k \in 1..Len(analysis.directory_results) :
                               analysis.directory_results[k].files = DirFiles(d, TRUE)}) = 1
            /\ \A k \in 1..Len(analysis.directory_results) :
                  analysis.directory_results[k].files = DirFiles(d, TRUE) =>
                      analysis.directory_results[k].analysis
                          = Answer(DirContent(d, TRUE))

\* C30 as claimed: when analyze_directories returns without combined
\* analysis, every query having answered, every directory with content has
\* exactly one entry in directory_results and the entry pairs its files with
\* the analysis of its own content, whatever the order of completion and
\* wherever the directories without content are.
C30_PairedWithOwn ==
    (/\ analysis.pc = "returned"
     /\ \A t \in 1..Len(analysis.analyses) : analysis.analyses[t] # None)
        => OwnEntries

\* C30, what holds: the same when no directory without content comes before
\* a directory with content.
C30_PairedWhenEmptyLast ==
    (/\ analysis.pc = "returned"
     /\ \A t \in 1..Len(analysis.analyses) : analysis.analyses[t] # None
     /\ \A d, e \in 1..Len(analysis.full) :
           (d < e /\ analysis.full[e]) => analysis.full[d])
        => OwnEntries

====
